---------------------------- MODULE Spec2Model ----------------------------
(***************************************************************************)
(* A model of the Shopee session capture / replay tools:                   *)
(*   cek_shopee.py    get_shopee_tokens_persistent  (the harvester)        *)
(*   main_2.py        fetch_dynamic_data            (multi-endpoint fetch) *)
(*   login_helper.py  open_manual_browser           (manual login)         *)
(*   fetch_direct.py  fetch_shopee_direct           (replay)               *)
(* Every program runs on one asyncio event loop: the code between two      *)
(* awaits is one atomic step, and the response handlers of the harvester   *)
(* are tasks interleaved with the main coroutine at its awaits.            *)
(***************************************************************************)
EXTENDS Integers, Sequences, FiniteSets, TLC

VARIABLES
    flow,              \* the program that runs: "harvest", "fetch", "manual", "replay"
    pc,                \* the await the main coroutine is suspended at
    ctx,               \* the persistent browser context: "none", "open", "closed"
    intr,              \* the await at which an external interrupt was delivered, or "none"
    login_redirect,    \* "login" in page.url after the navigation of the harvester
    harvested_data,    \* cek_shopee.py: the dict url / headers / cookies
    request_captured,  \* cek_shopee.py: the asyncio.Event, is_set()
    i,                 \* cek_shopee.py: the loop variable of the scroll loop
    scrolls,           \* the scroll offsets injected into the page so far
    resp,              \* per response: its URL and the position of its handle_response task
    jar,               \* the cookie jar of the context (its version)
    set_log,           \* history of the request_captured.set() calls
    files,             \* the artifacts on disk
    attempted,         \* main_2.py: the endpoints whose in-page fetch was started
    results,           \* main_2.py: the dict results
    gets,              \* fetch_direct.py: the GET requests issued
    status,            \* fetch_direct.py: response.status_code, 0 before a response
    body,              \* fetch_direct.py: the body of the response
    payload,           \* main.py: the raw JSON handed to an extractor
    extractor,         \* main.py: the extractor that was applied, or "none"
    out                \* main.py: what the extractor returned, or the exception

vars == <<flow, pc, ctx, intr, login_redirect, harvested_data, request_captured,
          i, scrolls, resp, jar, set_log, files, attempted, results, gets,
          status, body, payload, extractor, out>>

harvest_vars == <<login_redirect, harvested_data, request_captured, i, scrolls,
                  resp, jar, set_log>>
fetch_vars == <<attempted, results>>
replay_vars == <<gets, status, body>>
extract_vars == <<payload, extractor, out>>

(***************************************************************************)
(* Bounds of the model and constants of the programs.                      *)
(***************************************************************************)
MaxResponses == 2        \* responses observed by the page in one run
MaxSections == 2         \* entries of data.sections in a replayed body
MaxItems == 2            \* entries of a top_product list
MaxFeed == 2             \* entries of the list an extractor walks
MaxScrolls == 15         \* range(15)
ScrollBase == 600
ScrollStep == 200

Responses == 1..MaxResponses

(***************************************************************************)
(* Values.  Python's None and the contents of a file are tagged records,   *)
(* dicts are functions from keys to values.                                *)
(***************************************************************************)
None == [t |-> "none"]
EmptyDict == <<>>
Prev == [t |-> "prev"]            \* what a file held before the run
Missing == [t |-> "missing"]      \* the file does not exist
Raise == [t |-> "raise"]          \* an exception propagates instead of a value

\* JSON values as Python holds them: dict, list, str, int and None.
JObj(f) == [t |-> "obj", v |-> f]
JList(s) == [t |-> "list", v |-> s]
JStr(s) == [t |-> "str", v |-> s]
JNum(n) == [t |-> "num", v |-> n]
EmptyObj == JObj(EmptyDict)
EmptyList == JList(<<>>)

\* d.get(k): the default ignored
GetOrNone(d, k, default) ==
    IF d.t # "obj" THEN Raise
    ELSE IF k \in DOMAIN d.v THEN d.v[k] ELSE None

\* d.get(k, default): AttributeError unless d is a dict.
Get(d, k, default) ==
    IF d.t # "obj" THEN Raise
    ELSE IF k \in DOMAIN d.v THEN d.v[k] ELSE default

\* The values a for loop over x binds (as a list), or TypeError: a list
\* yields its elements, a dict its keys, a str its characters.
SetToSeq(S) ==
    CHOOSE q \in [1..Cardinality(S) -> S] : \A a \in S : \E k \in DOMAIN q : q[k] = a
Iter(x) ==
    CASE x.t = "list" -> x
      [] x.t = "obj" -> JList([k \in 1..Cardinality(DOMAIN x.v) |->
                                  JStr(<<SetToSeq(DOMAIN x.v)[k]>>)])
      [] x.t = "str" -> JList([k \in 1..Len(x.v) |-> JStr(<<x.v[k]>>)])
      [] OTHER -> Raise

\* len(x), or TypeError
PyLen(x) ==
    CASE x.t \in {"list", "str"} -> JNum(Len(x.v))
      [] x.t = "obj" -> JNum(Cardinality(DOMAIN x.v))
      [] OTHER -> Raise

\* A response URL: whether "api/v4/recommend/recommend" and
\* "bundle=top_products_homepage" occur in it, and which response it is.
Url(r, api, bundle) == [t |-> "url", id |-> r, api |-> api, bundle |-> bundle]
NoUrl == Url(0, FALSE, FALSE)

\* response.request.headers of response r
RequestHeaders(r) ==
    ("accept" :> <<"*/*", r>>) @@ ("user-agent" :> <<"Chrome", r>>)

\* {c['name']: c['value'] for c in cookies} for the jar at version n
CookieDict(n) == ("SPC_EC" :> n)

\* The artifacts of the programs.
DynFile(name) == "dynamic_" \o name \o ".json"
Endpoints == <<"rec", "cat", "flash", "discover", "footer", "sug">>
EndpointNames == {Endpoints[k] : k \in 1..Len(Endpoints)}
\* main.py: the files the report is built from, in the order of lines 481-500.
ReportInputs ==
    <<"response_shopee.json", "search_suggestion_shopee.json",
      "response_footer.json", "response_category.json",
      "response_flash_sale.json", "response_daily_discover.json">>
FileNames == {"response_shopee.json", "shopee_prep.json", "debug_persistent.png"}
                \cup {DynFile(n) : n \in EndpointNames}
                \cup {ReportInputs[k] : k \in 1..Len(ReportInputs)}
                \cup {"report.html"}

Final == {"done", "raised"}

(***************************************************************************)
(* cek_shopee.py: handle_response, one task per observed response.         *)
(***************************************************************************)
IsTargetAny(u) == TRUE
\* line 58: "api/v4/recommend/recommend" in response.url
IsTarget(u) == u.api

ShouldCaptureAlways(u, hd) == TRUE
\* line 62: "bundle=top_products_homepage" in response.url or not harvested_data["url"]
ShouldCapture(u, hd) == u.bundle \/ hd.url = None

\* The awaits of the main coroutine during which the page emits responses to
\* the handler registered at line 79.
Listening == {"goto", "sleep5", "evaluate", "sleep2", "screenshot", "close"}

\* Lines 56-66: the response is observed; its handler runs up to its first await.
Observe(r, api, bundle) ==
    /\ flow = "harvest" /\ ctx = "open" /\ pc \in Listening
    /\ resp[r].st = "pending" /\ r = jar + 1
    /\ jar' = jar + 1
    /\ LET u == Url(r, api, bundle) IN
       IF IsTarget(u) /\ ShouldCapture(u, harvested_data)
       THEN /\ harvested_data' = [harvested_data EXCEPT !.url = u,
                                     !.headers = RequestHeaders(r)]
            /\ resp' = [resp EXCEPT ![r] = [url |-> u, st |-> "cookies"]]
       ELSE /\ harvested_data' = harvested_data
            /\ resp' = [resp EXCEPT ![r] = [url |-> u, st |-> "skipped"]]
    /\ UNCHANGED <<flow, pc, ctx, intr, login_redirect, request_captured, i,
                   scrolls, set_log, files, fetch_vars, replay_vars, extract_vars>>

\* Lines 66-70: context.cookies() returns the jar; the handler awaits response.json().
CookiesReturn(r) ==
    /\ flow = "harvest" /\ pc \notin Final /\ ctx = "open"
    /\ resp[r].st = "cookies"
    /\ harvested_data' = [harvested_data EXCEPT !.cookies = CookieDict(jar)]
    /\ resp' = [resp EXCEPT ![r].st = "json"]
    /\ UNCHANGED <<flow, pc, ctx, intr, login_redirect, request_captured, i,
                   scrolls, jar, set_log, files, fetch_vars, replay_vars, extract_vars>>

\* Line 66: context.cookies() raises on a closed context; the task ends.
CookiesRaise(r) ==
    /\ flow = "harvest" /\ pc \notin Final /\ ctx = "closed"
    /\ resp[r].st = "cookies"
    /\ resp' = [resp EXCEPT ![r].st = "failed"]
    /\ UNCHANGED <<flow, pc, ctx, intr, login_redirect, harvested_data,
                   request_captured, i, scrolls, jar, set_log, files,
                   fetch_vars, replay_vars, extract_vars>>

SetEvent(r) ==
    /\ request_captured' = TRUE
    /\ set_log' = Append(set_log, [by |-> r, was_set |-> request_captured,
                                   seen |-> jar])

\* Lines 69-77: response.json() returns (the body is written) or raises (the
\* bare except passes); then request_captured.set().
JsonReturn(r, parsed) ==
    /\ flow = "harvest" /\ pc \notin Final
    /\ resp[r].st = "json"
    /\ parsed => ctx = "open"
    /\ files' = IF parsed
                THEN [files EXCEPT !["response_shopee.json"] =
                                        [t |-> "body", of |-> r]]
                ELSE files
    /\ SetEvent(r)
    /\ resp' = [resp EXCEPT ![r].st = "done"]
    /\ UNCHANGED <<flow, pc, ctx, intr, login_redirect, harvested_data, i,
                   scrolls, jar, fetch_vars, replay_vars, extract_vars>>

(***************************************************************************)
(* cek_shopee.py: get_shopee_tokens_persistent, the main coroutine.        *)
(***************************************************************************)
\* line 100
ScrollOffset(k) == ScrollBase + (k * ScrollStep)

LoopHeadNoBreak(k) ==
    IF k < MaxScrolls
    THEN /\ i' = k
         /\ scrolls' = Append(scrolls, ScrollOffset(k))
         /\ pc' = "evaluate"
    ELSE /\ UNCHANGED <<i, scrolls>>
         /\ pc' = IF request_captured THEN "close" ELSE "screenshot"
\* Lines 95-107 and 113, from the head of iteration k to the next await: the
\* scroll injection (101), the screenshot (107) or context.close() (113).
LoopHead(k) ==
    IF k < MaxScrolls /\ ~request_captured
    THEN /\ i' = k
         /\ scrolls' = Append(scrolls, ScrollOffset(k))
         /\ pc' = "evaluate"
    ELSE /\ i' = IF k < MaxScrolls THEN k ELSE i
         /\ scrolls' = scrolls
         /\ pc' = IF request_captured THEN "close" ELSE "screenshot"

\* Lines 31-51: the context is launched; the stealth check is awaited.
HarvestLaunch ==
    /\ flow = "harvest" /\ pc = "start"
    /\ ctx' = "open" /\ pc' = "stealth"
    /\ UNCHANGED <<flow, intr, harvest_vars, files, fetch_vars, replay_vars, extract_vars>>

\* Lines 51-83: the stealth check returns, the handler is registered and the
\* navigation starts; an exception of the check leaves the function (no try).
HarvestStealth(ok) ==
    /\ flow = "harvest" /\ pc = "stealth"
    /\ pc' = IF ok THEN "goto" ELSE "raised"
    /\ UNCHANGED <<flow, ctx, intr, harvest_vars, files, fetch_vars, replay_vars, extract_vars>>

\* Lines 83-92: the navigation returns (on a login URL or not) or raises
\* (timeout), which the except of line 110 catches.
HarvestGoto(ok, login) ==
    /\ flow = "harvest" /\ pc = "goto"
    /\ IF ok THEN pc' = "sleep5" /\ login_redirect' = login
             ELSE pc' = "close" /\ login_redirect' = login_redirect /\ ~login
    /\ UNCHANGED <<flow, ctx, intr, harvested_data, request_captured, i, scrolls,
                   resp, jar, set_log, files, fetch_vars, replay_vars, extract_vars>>

\* Lines 92-101: the wait for content ends, the scroll loop is entered.
HarvestSleep5 ==
    /\ flow = "harvest" /\ pc = "sleep5"
    /\ LoopHead(0)
    /\ UNCHANGED <<flow, ctx, intr, login_redirect, harvested_data,
                   request_captured, resp, jar, set_log, files, fetch_vars,
                   replay_vars, extract_vars>>

\* Lines 101-103: the scroll injection returns, or raises into line 110.
HarvestEvaluate(ok) ==
    /\ flow = "harvest" /\ pc = "evaluate"
    /\ pc' = IF ok THEN "sleep2" ELSE "close"
    /\ UNCHANGED <<flow, ctx, intr, harvest_vars, files, fetch_vars, replay_vars, extract_vars>>

\* Lines 103, 95-101: the wait after a scroll ends, the next iteration starts.
HarvestSleep2 ==
    /\ flow = "harvest" /\ pc = "sleep2"
    /\ LoopHead(i + 1)
    /\ UNCHANGED <<flow, ctx, intr, login_redirect, harvested_data,
                   request_captured, resp, jar, set_log, files, fetch_vars,
                   replay_vars, extract_vars>>

\* Lines 107-113: the screenshot is written, or raises into line 110.
HarvestScreenshot(ok) ==
    /\ flow = "harvest" /\ pc = "screenshot"
    /\ files' = IF ok
                THEN [files EXCEPT !["debug_persistent.png"] = [t |-> "screenshot"]]
                ELSE files
    /\ pc' = "close"
    /\ UNCHANGED <<flow, ctx, intr, harvest_vars, fetch_vars, replay_vars, extract_vars>>

\* Line 113: context.close() returns; the async with block of line 31 is left.
HarvestClose ==
    /\ flow = "harvest" /\ pc = "close"
    /\ ctx' = "closed" /\ pc' = "exit_with"
    /\ UNCHANGED <<flow, intr, harvest_vars, files, fetch_vars, replay_vars, extract_vars>>

\* Lines 118-126 with the captured values of the two keys kept.
PrepDataCapturedWins(hd) ==
    [t |-> "token",
     url |-> hd.url,
     headers |-> hd.headers
                 @@ ("x-requested-with" :> <<"XMLHttpRequest", 0>>)
                 @@ ("accept" :> <<"application/json", 0>>),
     cookies |-> hd.cookies]

\* Lines 118-126
PrepData(hd) ==
    [t |-> "token",
     url |-> hd.url,
     headers |-> ("x-requested-with" :> <<"XMLHttpRequest", 0>>)
                 @@ ("accept" :> <<"application/json", 0>>) @@ hd.headers,
     cookies |-> hd.cookies]

\* The save without the test of line 116.
HarvestSaveAlways ==
    /\ flow = "harvest" /\ pc = "exit_with"
    /\ files' = [files EXCEPT !["shopee_prep.json"] = PrepData(harvested_data)]
    /\ pc' = "done"
    /\ UNCHANGED <<flow, ctx, intr, harvest_vars, fetch_vars, replay_vars, extract_vars>>

\* Lines 116-131: the tokens are saved when a url was captured.
HarvestSave ==
    /\ flow = "harvest" /\ pc = "exit_with"
    /\ files' = IF harvested_data.url # None
                THEN [files EXCEPT !["shopee_prep.json"] = PrepData(harvested_data)]
                ELSE files
    /\ pc' = "done"
    /\ UNCHANGED <<flow, ctx, intr, harvest_vars, fetch_vars, replay_vars, extract_vars>>

HarvestMain ==
    \/ HarvestLaunch
    \/ \E ok \in BOOLEAN : HarvestStealth(ok)
    \/ \E ok, login \in BOOLEAN : HarvestGoto(ok, login)
    \/ HarvestSleep5
    \/ \E ok \in BOOLEAN : HarvestEvaluate(ok)
    \/ HarvestSleep2
    \/ \E ok \in BOOLEAN : HarvestScreenshot(ok)
    \/ HarvestClose
    \/ HarvestSave

HarvestHandlers ==
    \E r \in Responses :
        \/ \E api, bundle \in BOOLEAN : Observe(r, api, bundle)
        \/ CookiesReturn(r)
        \/ CookiesRaise(r)
        \/ \E parsed \in BOOLEAN : JsonReturn(r, parsed)

(***************************************************************************)
(* main_2.py: fetch_dynamic_data.                                          *)
(***************************************************************************)
\* What one in-page fetch of lines 297-308 can end in.
Outcomes == {"json", "error_marker", "raise", "write_raise"}

\* raw_data of line 298, results[name] of lines 303 and 308
RawData(name, outcome) ==
    CASE outcome = "json" -> [t |-> "json", of |-> name]
      [] outcome = "error_marker" -> [t |-> "error"]
      [] OTHER -> [t |-> "empty"]

ContinueAfterAbort(outcome, n) ==
    outcome \notin {"raise", "write_raise"} /\ n < Len(Endpoints)
\* Lines 295, 306-308: the except swallows the failure and the for loop goes
\* on to the next of the six endpoints.
ContinueAfter(outcome, n) == n < Len(Endpoints)

\* Lines 263-273: the context is launched, the navigation starts.
FetchLaunch ==
    /\ flow = "fetch" /\ pc = "start"
    /\ ctx' = "open" /\ pc' = "goto"
    /\ UNCHANGED <<flow, intr, harvest_vars, files, fetch_vars, replay_vars, extract_vars>>

\* The navigation followed by the first fetch, without the prompt of line 281.
FetchGotoNoPrompt(ok) ==
    /\ flow = "fetch" /\ pc = "goto"
    /\ IF ok
       THEN pc' = "evaluate" /\ attempted' = <<Endpoints[1]>>
       ELSE pc' = "raised" /\ attempted' = attempted
    /\ UNCHANGED <<flow, ctx, intr, harvest_vars, files, results, replay_vars, extract_vars>>

\* Lines 273-281: the navigation returns and the prompt is shown, or the
\* navigation raises out of the function (no try).
FetchGoto(ok) ==
    /\ flow = "fetch" /\ pc = "goto"
    /\ pc' = IF ok THEN "checkpoint" ELSE "raised"
    /\ UNCHANGED <<flow, ctx, intr, harvest_vars, files, fetch_vars, replay_vars, extract_vars>>

\* Lines 281-298: the operator presses ENTER, the first in-page fetch starts;
\* or input raises EOFError out of the function.
FetchCheckpoint(entered) ==
    /\ flow = "fetch" /\ pc = "checkpoint"
    /\ IF entered
       THEN pc' = "evaluate" /\ attempted' = <<Endpoints[1]>>
       ELSE pc' = "raised" /\ attempted' = attempted
    /\ UNCHANGED <<flow, ctx, intr, harvest_vars, files, results, replay_vars, extract_vars>>

\* The loop of lines 295-308 keeping the results in memory only.
FetchEvaluateNoWrite(outcome) ==
    /\ flow = "fetch" /\ pc = "evaluate"
    /\ LET n == Len(attempted)
           name == Endpoints[n] IN
       /\ results' = (name :> RawData(name, outcome)) @@ results
       /\ files' = files
       /\ IF ContinueAfter(outcome, n)
          THEN pc' = "evaluate" /\ attempted' = Append(attempted, Endpoints[n + 1])
          ELSE pc' = "close" /\ attempted' = attempted
    /\ UNCHANGED <<flow, ctx, intr, harvest_vars, replay_vars, extract_vars>>

\* Lines 298-310: page.evaluate returns (raw JSON, or the error marker of the
\* in-page catch) and the artifact is written, or page.evaluate or the write
\* raises and the except stores {}; then the next fetch or context.close().
FetchEvaluate(outcome) ==
    /\ flow = "fetch" /\ pc = "evaluate"
    /\ LET n == Len(attempted)
           name == Endpoints[n] IN
       /\ results' = (name :> RawData(name, outcome)) @@ results
       /\ files' = IF outcome \in {"json", "error_marker"}
                   THEN [files EXCEPT ![DynFile(name)] = RawData(name, outcome)]
                   ELSE files
       /\ IF ContinueAfter(outcome, n)
          THEN pc' = "evaluate" /\ attempted' = Append(attempted, Endpoints[n + 1])
          ELSE pc' = "close" /\ attempted' = attempted
    /\ UNCHANGED <<flow, ctx, intr, harvest_vars, replay_vars, extract_vars>>

\* Line 310: context.close() returns; the async with block of line 261 is left.
FetchClose ==
    /\ flow = "fetch" /\ pc = "close"
    /\ ctx' = "closed" /\ pc' = "exit_with"
    /\ UNCHANGED <<flow, intr, harvest_vars, files, fetch_vars, replay_vars, extract_vars>>

\* Lines 312-324: the results are handed to the extractors and the report.
FetchProcess ==
    /\ flow = "fetch" /\ pc = "exit_with"
    /\ pc' = "done"
    /\ UNCHANGED <<flow, ctx, intr, harvest_vars, files, fetch_vars, replay_vars, extract_vars>>

FetchMain ==
    \/ FetchLaunch
    \/ \E ok \in BOOLEAN : FetchGoto(ok)
    \/ \E entered \in BOOLEAN : FetchCheckpoint(entered)
    \/ \E outcome \in Outcomes : FetchEvaluate(outcome)
    \/ FetchClose
    \/ FetchProcess

(***************************************************************************)
(* login_helper.py: open_manual_browser.                                   *)
(***************************************************************************)
\* Lines 16-27: the context is launched, the navigation starts.
ManualLaunch ==
    /\ flow = "manual" /\ pc = "start"
    /\ ctx' = "open" /\ pc' = "goto"
    /\ UNCHANGED <<flow, intr, harvest_vars, files, fetch_vars, replay_vars, extract_vars>>

\* Lines 27-39: the navigation returns and the idle loop is entered, or the
\* navigation raises out of the function (it is before the try of line 36).
ManualGoto(ok) ==
    /\ flow = "manual" /\ pc = "goto"
    /\ pc' = IF ok THEN "idle" ELSE "raised"
    /\ UNCHANGED <<flow, ctx, intr, harvest_vars, files, fetch_vars, replay_vars, extract_vars>>

\* Lines 38-39: while True: the sleep returns and is awaited again.
ManualIdle ==
    /\ flow = "manual" /\ pc = "idle"
    /\ pc' = "idle"
    /\ UNCHANGED <<flow, ctx, intr, harvest_vars, files, fetch_vars, replay_vars, extract_vars>>

\* Lines 42-43: the finally block: context.close() returns, the flow ends.
ManualClose ==
    /\ flow = "manual" /\ pc = "close"
    /\ ctx' = "closed" /\ pc' = "done"
    /\ UNCHANGED <<flow, intr, harvest_vars, files, fetch_vars, replay_vars, extract_vars>>

ManualMain ==
    \/ ManualLaunch
    \/ \E ok \in BOOLEAN : ManualGoto(ok)
    \/ ManualIdle
    \/ ManualClose

(***************************************************************************)
(* An external interrupt (Ctrl+C): asyncio cancels the main task, and       *)
(* CancelledError is raised at the await it is suspended at.  Only the try  *)
(* of login_helper.py (lines 36-43) has a finally; the except Exception of  *)
(* cek_shopee.py (110) and of main_2.py (306) do not catch CancelledError.  *)
(***************************************************************************)
Interrupt ==
    /\ flow \in {"harvest", "fetch", "manual"}
    /\ pc \notin Final /\ intr = "none"
    /\ intr' = pc
    /\ pc' = IF flow = "manual" /\ pc = "idle" THEN "close" ELSE "raised"
    /\ UNCHANGED <<flow, ctx, harvest_vars, files, fetch_vars, replay_vars, extract_vars>>

(***************************************************************************)
(* The three programs that open the persistent browser context.            *)
(***************************************************************************)
InitCommon ==
    /\ pc = "start" /\ ctx = "none" /\ intr = "none"
    /\ login_redirect = FALSE
    /\ harvested_data = [url |-> None, headers |-> EmptyDict, cookies |-> EmptyDict]
    /\ request_captured = FALSE
    /\ i = 0 /\ scrolls = <<>>
    /\ resp = [r \in Responses |-> [url |-> NoUrl, st |-> "pending"]]
    /\ jar = 0 /\ set_log = <<>>
    /\ attempted = <<>> /\ results = EmptyDict
    /\ gets = 0 /\ status = 0 /\ body = None
    /\ extractor = "none" /\ out = None

Init ==
    /\ flow \in {"harvest", "fetch", "manual"}
    /\ InitCommon
    /\ files = [f \in FileNames |-> Prev]
    /\ payload = None

Next ==
    \/ HarvestMain
    \/ HarvestHandlers
    \/ FetchMain
    \/ ManualMain
    \/ Interrupt

Spec == Init /\ [][Next]_vars

\* The event loop runs every task that can run: the main coroutine's awaits
\* (timed waits, bounded navigation, page calls) return or raise.
FairSpec == Spec /\ WF_vars(HarvestMain) /\ WF_vars(HarvestHandlers)

(***************************************************************************)
(* Properties of the harvester.                                            *)
(***************************************************************************)
\* C1: with the signal set, the observation of a further response changes
\* harvested_data (url, headers, cookies) only when the response URL carries
\* the API fragment and the bundle discriminator; a response with the API
\* fragment and without the discriminator is skipped, and a skipped handler
\* never acts again.
C1_IdempotentCapture ==
    [][/\ \A r \in Responses :
            (request_captured /\ resp[r].st = "pending" /\ resp'[r].st # "pending")
            => /\ harvested_data' # harvested_data
                    => (resp'[r].url.api /\ resp'[r].url.bundle)
               /\ (resp'[r].url.api /\ ~resp'[r].url.bundle)
                    => (resp'[r].st = "skipped" /\ harvested_data' = harvested_data)
       /\ \A r \in Responses : resp[r].st = "skipped" => resp'[r] = resp[r]]_vars

\* A response with the API fragment and no discriminator was observed after
\* the first set() and skipped, the captured record being in place.
C1_Witness ==
    \E r \in Responses :
        /\ resp[r].st = "skipped" /\ resp[r].url.api /\ ~resp[r].url.bundle
        /\ Len(set_log) > 0 /\ set_log[1].seen < r
        /\ harvested_data.url # None /\ harvested_data.cookies # EmptyDict

\* C2 (as claimed): at most one handler performs set(), and none performs it
\* when the signal is already set.
C2_SetExactlyOnce ==
    /\ Len(set_log) <= 1
    /\ \A k \in 1..Len(set_log) : ~set_log[k].was_set

\* C2 (amended): the signal goes from unset to set at most once and is never
\* cleared; set() is performed at most once per handler and only by handlers
\* that captured a response with the API fragment, but several handlers may
\* perform it, all but the first finding the signal already set.
C2_SetIdempotent ==
    /\ [](/\ request_captured <=> Len(set_log) > 0
          /\ \A k \in 1..Len(set_log) :
                /\ set_log[k].was_set <=> k > 1
                /\ resp[set_log[k].by].st = "done"
                /\ resp[set_log[k].by].url.api
                /\ \A j \in 1..Len(set_log) :
                      set_log[j].by = set_log[k].by => j = k)
    /\ [][request_captured => request_captured']_vars

\* Two handlers have performed set().
C2_Witness == Len(set_log) = 2 /\ request_captured

\* C3: at most 15 scroll injections, the k-th (from 0) of offset 600 + 200*k;
\* no injection starts in a state where the signal is set; after a
\* scroll-and-wait with the signal set the loop goes to context.close()
\* without a further scroll; and the harvester terminates.
C3_ScrollLoop ==
    /\ [](/\ Len(scrolls) <= 15
          /\ \A k \in 1..Len(scrolls) : scrolls[k] = 600 + 200 * (k - 1))
    /\ [][Len(scrolls') > Len(scrolls) => ~request_captured]_vars
    /\ [][(pc = "sleep2" /\ pc' # pc /\ request_captured)
            => (scrolls' = scrolls /\ pc' \in {"close", "raised"})]_vars
    /\ (flow = "harvest" => <>(pc \in Final))

\* The signal was set during the loop, which ended at the head of iteration i
\* with fewer than 15 scrolls made.
C3_Witness ==
    /\ flow = "harvest" /\ pc = "close" /\ request_captured
    /\ i = Len(scrolls) /\ 0 < i /\ i < 15

\* C7: the screenshot and the TokenRecord artifact are never both written.
C7_ScreenshotOnlyOnFailure ==
    ~(/\ files["debug_persistent.png"] = [t |-> "screenshot"]
      /\ files["shopee_prep.json"] # Prev)

(***************************************************************************)
(* Properties of the browser context.                                      *)
(***************************************************************************)
\* C4: in each of the three flows, once the context was acquired it is closed
\* when the flow has ended, also when a step raised an exception.
C4_ContextClosedOnEveryExit ==
    (pc \in Final /\ ctx # "none" /\ intr = "none") => ctx = "closed"

\* C5: the manual wait is left only by an interrupt, and a flow interrupted in
\* the manual wait or in the checkpoint wait ends with the context closed.
C5_InterruptClosesContext ==
    /\ (flow = "manual" /\ pc \in {"close", "done"}) => intr = "idle"
    /\ (pc \in Final /\ intr \in {"idle", "checkpoint"}) => ctx = "closed"

\* C6: the endpoints are attempted once each in the order rec, cat, flash,
\* discover, footer, sug; whatever an endpoint's fetch ended in, the next
\* endpoint's fetch is started; the context is closed only after all six.
C6_AllEndpointsAttempted ==
    flow = "fetch" =>
        LET six == <<"rec", "cat", "flash", "discover", "footer", "sug">> IN
        /\ Len(attempted) <= 6
        /\ attempted = SubSeq(six, 1, Len(attempted))
        /\ DOMAIN results \subseteq {attempted[k] : k \in 1..Len(attempted)}
        /\ \A k \in 1..5 : six[k] \in DOMAIN results => Len(attempted) > k
        /\ ctx = "closed" => (attempted = six /\ DOMAIN results = EndpointNames)

\* The fetch of rec failed, and the five others were attempted before the close.
C6_Witness ==
    /\ flow = "fetch" /\ ctx = "closed" /\ Len(attempted) = 6
    /\ results["rec"] = [t |-> "empty"]
    /\ results["sug"] = [t |-> "json", of |-> "sug"]

(***************************************************************************)
(* fetch_direct.py: fetch_shopee_direct.                                   *)
(***************************************************************************)
\* The bodies a replay can receive: every way in which 'data', 'sections',
\* a section's 'data' and 'top_product' are present, missing or null.
TopProductItems(n) == JList([k \in 1..n |-> JObj([key |-> JNum(k)])])
SectionDataShapes ==
    {EmptyObj, JObj([top_product |-> None])}
        \cup {JObj([top_product |-> TopProductItems(n)]) : n \in 0..MaxItems}
SectionShapes ==
    {EmptyObj, JObj([data |-> None])}
        \cup {JObj([data |-> d]) : d \in SectionDataShapes}
SectionLists ==
    UNION {[1..n -> SectionShapes] : n \in 0..MaxSections}
DataShapes ==
    {EmptyObj, JObj([sections |-> None])}
        \cup {JObj([sections |-> JList(q)]) : q \in SectionLists}
Bodies ==
    {EmptyObj, EmptyList, JObj([data |-> None])}
        \cup {JObj([data |-> d]) : d \in DataShapes}
Unparseable == [t |-> "text"]     \* a body response.json() raises on

\* The TokenRecord artifact of an earlier harvesting run.
PrevToken == [t |-> "token", url |-> Url(1, TRUE, TRUE),
              headers |-> RequestHeaders(1), cookies |-> CookieDict(1)]
Corrupt == [t |-> "corrupt"]      \* a file json.load raises on

\* Lines 30-33: the products of the sections, from position k on.
RECURSIVE CountFrom(_, _)
CountFrom(sections, k) ==
    IF k > Len(sections) THEN JNum(0)
    ELSE LET prods == Get(Get(sections[k], "data", EmptyObj),
                          "top_product", EmptyList)
             n == IF prods = Raise THEN Raise ELSE PyLen(prods)
             rest == IF n = Raise THEN Raise ELSE CountFrom(sections, k + 1)
         IN  IF rest = Raise THEN Raise ELSE JNum(n.v + rest.v)

\* Lines 29-33: product_count, or the exception the walk raises.
ProductCount(data) ==
    LET sections == Get(Get(data, "data", EmptyObj), "sections", EmptyList)
        items == IF sections = Raise THEN Raise ELSE Iter(sections)
    IN  IF items = Raise THEN Raise ELSE CountFrom(items.v, 1)

SavesAnyStatus(s) == TRUE
\* line 26: response.status_code == 200
IsOk(s) == s = 200

\* Lines 8-24: the TokenRecord artifact is loaded and the GET is issued; a
\* missing file ends the invocation (line 13), an unreadable one raises.
ReplayLoad ==
    /\ flow = "replay" /\ pc = "start"
    /\ LET prep == files["shopee_prep.json"] IN
       CASE prep = Missing -> pc' = "done" /\ gets' = gets
         [] prep = Corrupt -> pc' = "raised" /\ gets' = gets
         [] OTHER -> pc' = "get" /\ gets' = gets + 1
    /\ UNCHANGED <<flow, ctx, intr, harvest_vars, files, fetch_vars, status, body,
                   extract_vars>>

\* Lines 24-47: the GET raises (timeout, network), which line 46 catches.
ReplayGetRaises ==
    /\ flow = "replay" /\ pc = "get"
    /\ pc' = "done"
    /\ UNCHANGED <<flow, ctx, intr, harvest_vars, files, fetch_vars, replay_vars, extract_vars>>

\* Lines 24-47: the GET returns status s and body b.  On 200 the body is
\* parsed, the products are counted and the body is saved; an exception of
\* the parse or of the count is caught at line 46.
ReplayGetReturns(s, b) ==
    /\ flow = "replay" /\ pc = "get"
    /\ status' = s /\ body' = b
    /\ files' = IF IsOk(s) /\ b # Unparseable /\ ProductCount(b) # Raise
                THEN [files EXCEPT !["response_shopee.json"] = b]
                ELSE files
    /\ pc' = "done"
    /\ UNCHANGED <<flow, ctx, intr, harvest_vars, fetch_vars, gets, extract_vars>>

InitReplay ==
    /\ flow = "replay"
    /\ InitCommon
    /\ \E prep \in {Missing, Corrupt, PrevToken} :
           files = [f \in FileNames |->
                       IF f = "shopee_prep.json" THEN prep ELSE Prev]
    /\ payload = None

NextReplay ==
    \/ ReplayLoad
    \/ ReplayGetRaises
    \/ \E s \in {200, 403, 500} : \E b \in Bodies \cup {Unparseable} :
           ReplayGetReturns(s, b)

SpecReplay == InitReplay /\ [][NextReplay]_vars

\* C8: a replay issues at most one GET; after a response whose status is not
\* 200 the invocation has ended with that single GET issued and with the raw
\* body artifact and the TokenRecord artifact as they were before.
C8_NoRetryNoWrite ==
    /\ gets <= 1
    /\ (status # 0 /\ status # 200)
         => /\ pc = "done" /\ gets = 1
            /\ files["response_shopee.json"] = Prev
            /\ files["shopee_prep.json"] = PrevToken

\* A replay got 403 with a JSON body and has ended.
C8_Witness ==
    /\ pc = "done" /\ status = 403 /\ gets = 1
    /\ body = JObj([data |-> JObj([sections |-> JList(<<>>)])])

\* C9: after a replay that received 200 with a JSON-parseable body, the raw
\* body artifact equals that body, whatever its shape.
C9_FreshBodySaved ==
    (pc = "done" /\ status = 200 /\ body # Unparseable)
        => files["response_shopee.json"] = body

(***************************************************************************)
(* main.py: the extractors.  Python values: a str is a sequence of         *)
(* characters (a literal of the code is one element), a float is the exact *)
(* decimal m / 10^e with no trailing zero.                                 *)
(***************************************************************************)
Skip == [t |-> "skip"]            \* the loop body ended in continue

RECURSIVE JFloat(_, _)
JFloat(m, e) ==
    IF e > 0 /\ m % 10 = 0 THEN JFloat(m \div 10, e - 1)
    ELSE [t |-> "float", m |-> m, e |-> e]

\* bool(x)
Truthy(x) ==
    CASE x.t = "num" -> x.v # 0
      [] x.t = "float" -> x.m # 0
      [] x.t \in {"str", "list"} -> Len(x.v) > 0
      [] x.t = "obj" -> DOMAIN x.v # {}
      [] OTHER -> FALSE

\* a or b
Or(a, b) == IF a = Raise THEN Raise ELSE IF Truthy(a) THEN a ELSE b

\* The scale factor of the prices, lines 119-120 and 160-161.
PriceScale == 100000

RECURSIVE Log10(_)
Log10(n) == IF n < 10 THEN 0 ELSE 1 + Log10(n \div 10)

\* x // d, the division a price would go through were it kept an int
FloorDiv(x, d) ==
    CASE x.t = "num" -> JNum(x.v \div d)
      [] OTHER -> Raise

\* x / d for d a power of ten; TypeError unless x is a number.
TrueDiv(x, d) ==
    CASE x.t = "num" -> JFloat(x.v, Log10(d))
      [] x.t = "float" -> JFloat(x.m, x.e + Log10(d))
      [] OTHER -> Raise

(***************************************************************************)
(* The rounding of the float division of line 119.  A float has 53         *)
(* significant bits; PriceScale is 2^5 * OddScale, so n / PriceScale is    *)
(* the float M * 2^-(s+5) with M the integer nearest to n * 2^s / OddScale *)
(* and s such that M has 53 bits.                                          *)
(***************************************************************************)
OddScale == PriceScale \div 32

RECURSIVE FloorLog2(_)
FloorLog2(n) == IF n < 2 THEN 0 ELSE 1 + FloorLog2(n \div 2)

RECURSIVE Pow2Mod(_, _)
Pow2Mod(s, m) == IF s = 0 THEN 1 % m ELSE (2 * Pow2Mod(s - 1, m)) % m

RECURSIVE ShiftsTo(_)
ShiftsTo(n) == IF n >= OddScale THEN 0 ELSE 1 + ShiftsTo(2 * n)

\* floor(log2(n / OddScale)) for n > 0
QuotientExp(n) ==
    IF n >= OddScale THEN FloorLog2(n \div OddScale) ELSE 0 - ShiftsTo(n)

\* M * OddScale - n * 2^s: the error of the quotient, in units of 2^-s
QuotientError(n) ==
    LET s == 52 - QuotientExp(n)
        rem == ((n % OddScale) * Pow2Mod(s, OddScale)) % OddScale
    IN  IF 2 * rem > OddScale THEN OddScale - rem ELSE 0 - rem

\* Whether the float (n / PriceScale) * PriceScale is the integer n: the exact
\* product is n + QuotientError(n) / 2^s, rounded to the nearest float, ties
\* to even; below a power of two the floats are twice as dense.
ScalesBackExactly(n) ==
    \/ n = 0
    \/ LET err == QuotientError(n)
           half == 2 ^ (FloorLog2(n) - QuotientExp(n) - 1)
       IN  IF err >= 0 THEN err <= half
           ELSE IF n = 2 ^ FloorLog2(n) THEN 2 * (0 - err) <= half
           ELSE 0 - err <= half

\* x * PriceScale for x the float n / PriceScale
TimesScale(x) ==
    IF x.t # "float" \/ x.e > Log10(PriceScale) \/ x.m < 0 THEN Raise
    ELSE LET n == x.m * 10 ^ (Log10(PriceScale) - x.e) IN
         IF ScalesBackExactly(n) THEN JNum(n) ELSE [t |-> "inexact", near |-> n]

DigitChar == <<"0", "1", "2", "3", "4", "5", "6", "7", "8", "9">>
RECURSIVE Digits(_)
Digits(n) ==
    IF n < 10 THEN <<DigitChar[n + 1]>>
    ELSE Digits(n \div 10) \o <<DigitChar[(n % 10) + 1]>>

\* The characters of f"{x}" for a str, an int or None.
Str(x) ==
    CASE x.t = "str" -> x.v
      [] x.t = "num" -> IF x.v < 0 THEN <<"-">> \o Digits(0 - x.v) ELSE Digits(x.v)
      [] x.t = "none" -> <<"N", "o", "n", "e">>

\* x[:n]; TypeError unless x is a list or a str.
SliceTo(x, n) ==
    IF x.t \in {"list", "str"}
    THEN [x EXCEPT !.v = SubSeq(x.v, 1, IF Len(x.v) < n THEN Len(x.v) ELSE n)]
    ELSE Raise

\* for v in x, with rs the values of the loop body for the values items of
\* Iter(x): the values that are not skipped, or the first exception.
Collect(items, rs) ==
    IF items = Raise THEN Raise
    ELSE IF \E k \in 1..Len(rs) : rs[k] = Raise THEN Raise
    ELSE JList(SelectSeq(rs, LAMBDA r : r # Skip))

\* A dict literal of the code, or the exception one of its values raised.
Dict(rec) == IF \E f \in DOMAIN rec : rec[f] = Raise THEN Raise ELSE JObj(rec)

\* f"https://down-id.img.susercontent.com/file/{img_id}"
ImageUrl(img_id) ==
    JStr(<<"https://down-id.img.susercontent.com/file/">> \o Str(img_id))

\* f"https://shopee.co.id/product-i.{shopid}.{itemid}", lines 128 and 169
ProductUrl(shopid, itemid) ==
    JStr(<<"https://shopee.co.id/product-i.">> \o Str(shopid) \o <<".">> \o Str(itemid))

\* Lines 115-143: the record of one flash sale item.
FlashSaleRecord(it) ==
    LET raw_price == Or(Get(it, "price", None), JNum(0))
        raw_old_price == Or(Get(it, "price_before_discount", None), JNum(0))
        img_id == Get(it, "image", None)
        primary_image == IF Truthy(img_id) THEN ImageUrl(img_id) ELSE None
        itemid == Get(it, "itemid", None)
        shopid == Get(it, "shopid", None)
    IN  IF it.t # "obj" THEN Raise
        ELSE Dict([name |-> Get(it, "name", None),
                   price |-> TrueDiv(raw_price, PriceScale),
                   old_price |-> TrueDiv(raw_old_price, PriceScale),
                   discount |-> Get(it, "discount", JStr(<<>>)),
                   sold_count |-> Get(it, "historical_sold", None),
                   label |-> JStr(<<"Flash Sale">>),
                   product_id |-> JStr(Str(shopid) \o <<".">> \o Str(itemid)),
                   score |-> Get(Get(it, "item_rating", EmptyObj), "rating_star", None),
                   images |-> IF Truthy(primary_image)
                              THEN JList(<<primary_image>>) ELSE EmptyList,
                   primary_image |-> primary_image,
                   type |-> JStr(<<"Flash Sale">>),
                   url |-> ProductUrl(shopid, itemid)])

\* Lines 110-145
extract_flash_sales(data) ==
    LET items == Iter(Get(Get(data, "data", EmptyObj), "items", EmptyList))
    IN  Collect(items, [k \in 1..Len(items.v) |->
                            FlashSaleRecord(items.v[k])])

\* Lines 156-184: the record of one item of a daily discover feed.
DailyDiscoverRecord(it) ==
    LET display_price == Get(it, "item_card_display_price", EmptyObj)
        raw_price == Or(Get(display_price, "price", None), JNum(0))
        raw_old_price == Or(Get(display_price, "strikethrough_price", None), JNum(0))
        img_id == Get(it, "image", None)
        primary_image == IF Truthy(img_id) THEN ImageUrl(img_id) ELSE None
        itemid == Get(it, "itemid", None)
        shopid == Get(it, "shopid", None)
    IN  IF it.t # "obj" THEN Raise
        ELSE Dict([name |-> Get(it, "name", None),
                   price |-> TrueDiv(raw_price, PriceScale),
                   old_price |-> TrueDiv(raw_old_price, PriceScale),
                   discount |-> Get(display_price, "discount_text", JStr(<<>>)),
                   sold_count |-> Or(Get(it, "historical_sold", None), JNum(0)),
                   label |-> JStr(<<"Daily Discover">>),
                   product_id |-> JStr(Str(shopid) \o <<".">> \o Str(itemid)),
                   score |-> Get(Get(it, "item_rating", EmptyObj), "rating_star", None),
                   images |-> LET items == Iter(SliceTo(Get(it, "images", EmptyList), 3))
                              IN  Collect(items, [k \in 1..Len(items.v) |->
                                                      ImageUrl(items.v[k])]),
                   primary_image |-> primary_image,
                   type |-> JStr(<<"Daily Discover">>),
                   url |-> ProductUrl(shopid, itemid)])

\* Lines 152-185: one feed: skipped unless an item_card with a truthy item.
DailyDiscoverFeed(feed) ==
    LET type == Get(feed, "type", None)
        it == Get(Get(feed, "item_card", EmptyObj), "item", EmptyObj)
    IN  IF type = Raise THEN Raise
        ELSE IF type # JStr(<<"item_card">>) THEN Skip
        ELSE IF it = Raise THEN Raise
        ELSE IF ~Truthy(it) THEN Skip
        ELSE DailyDiscoverRecord(it)

\* Lines 147-186
extract_daily_discover(data) ==
    LET items == Iter(Get(Get(data, "data", EmptyObj), "feeds", EmptyList))
    IN  Collect(items, [k \in 1..Len(items.v) |->
                            DailyDiscoverFeed(items.v[k])])

(***************************************************************************)
(* main.py: the functions on the characters of a str.                      *)
(***************************************************************************)
NumChars == {DigitChar[k] : k \in 1..10} \cup {"."}
Whitespace == {" ", "\t", "\n"}
Upper == <<"A", "B", "C", "D", "E", "F", "G", "H", "I", "J", "K", "L", "M",
           "N", "O", "P", "Q", "R", "S", "T", "U", "V", "W", "X", "Y", "Z">>
Lower == <<"a", "b", "c", "d", "e", "f", "g", "h", "i", "j", "k", "l", "m",
           "n", "o", "p", "q", "r", "s", "t", "u", "v", "w", "x", "y", "z">>

Min(S) == CHOOSE x \in S : \A y \in S : x <= y
Has(q, c) == \E k \in 1..Len(q) : q[k] = c
First(q, c) == Min({k \in 1..Len(q) : q[k] = c})

\* pat occurs in q at position p
OccursAt(q, pat, p) ==
    /\ p + Len(pat) - 1 <= Len(q)
    /\ \A k \in 1..Len(pat) : q[p + k - 1] = pat[k]

\* The last position of the run of digits and dots that starts at p.
RECURSIVE RunEnd(_, _)
RunEnd(q, p) ==
    IF p < Len(q) /\ q[p + 1] \in NumChars THEN RunEnd(q, p + 1) ELSE p

\* re.search(pat + r'([\d.]+)', q).group(1): the leftmost match, the group
\* greedy; None without a match.
SearchNumber(pat, q) ==
    LET starts == {p \in 1..Len(q) :
                      /\ OccursAt(q, pat, p)
                      /\ p + Len(pat) <= Len(q)
                      /\ q[p + Len(pat)] \in NumChars}
    IN  IF starts = {} THEN None
        ELSE LET b == Min(starts) + Len(pat) IN JStr(SubSeq(q, b, RunEnd(q, b)))

DigitValue(c) == CHOOSE d \in 0..9 : DigitChar[d + 1] = c
RECURSIVE ToInt(_)
ToInt(q) ==
    IF q = <<>> THEN 0
    ELSE 10 * ToInt(SubSeq(q, 1, Len(q) - 1)) + DigitValue(q[Len(q)])

\* float(q) for q of digits and dots: ValueError unless q has a digit and at
\* most one dot.
ParseFloat(q) ==
    LET dots == {k \in 1..Len(q) : q[k] = "."}
        digits == SelectSeq(q, LAMBDA c : c # ".")
    IN  IF Cardinality(dots) > 1 \/ digits = <<>> THEN Raise
        ELSE JFloat(ToInt(digits),
                    IF dots = {} THEN 0 ELSE Len(q) - (CHOOSE k \in dots : TRUE))

\* q.split(sep)
RECURSIVE Split(_, _)
Split(q, sep) ==
    IF ~Has(q, sep) THEN <<q>>
    ELSE LET k == First(q, sep) IN
         <<SubSeq(q, 1, k - 1)>> \o Split(SubSeq(q, k + 1, Len(q)), sep)

\* q.strip()
RECURSIVE Strip(_)
Strip(q) ==
    IF q = <<>> THEN q
    ELSE IF q[1] \in Whitespace THEN Strip(Tail(q))
    ELSE IF q[Len(q)] \in Whitespace THEN Strip(SubSeq(q, 1, Len(q) - 1))
    ELSE q

\* q.lower()
ToLower(q) ==
    [k \in 1..Len(q) |->
        IF \E n \in 1..26 : Upper[n] = q[k]
        THEN Lower[CHOOSE n \in 1..26 : Upper[n] = q[k]]
        ELSE q[k]]

\* q.replace(a, b) for characters a and b
Replace(q, a, b) == [k \in 1..Len(q) |-> IF q[k] = a THEN b ELSE q[k]]

\* The characters urllib.parse.quote leaves as they are.
SafeChars ==
    {Upper[n] : n \in 1..26} \cup {Lower[n] : n \in 1..26}
        \cup {DigitChar[k] : k \in 1..10} \cup {"_", ".", "-", "~", "/"}
PercentCode(c) ==
    CASE c = " " -> <<"%", "2", "0">>
      [] c = "\"" -> <<"%", "2", "2">>
      [] c = "%" -> <<"%", "2", "5">>
      [] c = "&" -> <<"%", "2", "6">>
      [] c = "," -> <<"%", "2", "C">>
      [] c = ":" -> <<"%", "3", "A">>
      [] c = "=" -> <<"%", "3", "D">>
      [] c = "?" -> <<"%", "3", "F">>
      [] c = "{" -> <<"%", "7", "B">>
      [] c = "}" -> <<"%", "7", "D">>
RECURSIVE QuoteChars(_)
QuoteChars(q) ==
    IF q = <<>> THEN <<>>
    ELSE (IF q[1] \in SafeChars THEN <<q[1]>> ELSE PercentCode(q[1]))
             \o QuoteChars(Tail(q))
\* urllib.parse.quote(x); TypeError unless x is a str.
Quote(x) == IF x.t = "str" THEN JStr(QuoteChars(x.v)) ELSE Raise

\* x[0]: IndexError on an empty list or str, TypeError or KeyError otherwise.
Index0(x) ==
    CASE x.t = "list" /\ Len(x.v) > 0 -> x.v[1]
      [] x.t = "str" /\ Len(x.v) > 0 -> JStr(<<x.v[1]>>)
      [] OTHER -> Raise

\* float(re.search(pat + r'([\d.]+)', x).group(1)), or None without a match;
\* TypeError unless x is a str.
SearchFloat(pat, x) ==
    IF x.t # "str" THEN Raise
    ELSE LET m == SearchNumber(pat, x.v) IN
         IF m = None THEN None ELSE ParseFloat(m.v)

ScoreKey == <<"s", "c", "o", "r", "e">>
ScorePattern == <<"S", "C", "O", "R", "E", ":">>
RankScorePattern ==
    <<"\"", "r", "a", "n", "k", "_", "s", "c", "o", "r", "e", "\"", ":">>

\* Lines 24-28: the parts from position k on, stored into parsed in order.
RECURSIVE StoreParts(_, _, _)
StoreParts(parts, k, parsed) ==
    IF k > Len(parts) THEN parsed
    ELSE LET part == parts[k] IN
         IF Has(part, ":") /\ ~Has(part, "{")
         THEN LET c == First(part, ":")
                  key == ToLower(Strip(SubSeq(part, 1, c - 1)))
                  v == JStr(Strip(SubSeq(part, c + 1, Len(part))))
              IN  StoreParts(parts, k + 1, (key :> v) @@ parsed)
         ELSE StoreParts(parts, k + 1, parsed)

\* Lines 14-30.  The keys of the dict are sequences of characters.
parse_info_string(info) ==
    IF info = Raise THEN Raise
    ELSE IF ~Truthy(info) THEN EmptyObj
    ELSE LET score == SearchFloat(ScorePattern, info) IN
         IF score = Raise THEN Raise
         ELSE JObj(StoreParts(Split(info.v, ","), 1,
                              IF score = None THEN EmptyDict
                              ELSE (ScoreKey :> score)))

\* Lines 42-61: the record of one top product.
TopProductRecord(item) ==
    LET info_meta == parse_info_string(Get(item, "info", JStr(<<>>)))
        image_urls == LET items == Iter(Get(item, "images", EmptyList))
                      IN  Collect(items, [k \in 1..Len(items.v) |->
                                              ImageUrl(items.v[k])])
        cat_id == Or(Get(item, "knodeid", None), Get(item, "key", None))
        encoded_cat_id == IF Truthy(cat_id) THEN Quote(cat_id) ELSE JStr(<<>>)
    IN  IF item.t # "obj" \/ image_urls = Raise \/ encoded_cat_id = Raise THEN Raise
        ELSE Dict([name |-> Get(item, "name", None),
                   sold_count |-> Get(item, "count", None),
                   label |-> JStr(<<"Top Product">>),
                   product_id |-> Get(item, "key", None),
                   score |-> Get(info_meta, ScoreKey, None),
                   images |-> image_urls,
                   primary_image |-> IF Truthy(image_urls) THEN image_urls.v[1] ELSE None,
                   type |-> JStr(<<"Top Product">>),
                   url |-> JStr(<<"https://shopee.co.id/top_products?catId=">>
                                  \o encoded_cat_id.v)])

\* Lines 36-61: the records of one section, none unless top_product is truthy.
SectionProducts(section) ==
    LET top_products == Get(Get(section, "data", EmptyObj), "top_product", None) IN
    IF top_products = Raise THEN Raise
    ELSE IF ~Truthy(top_products) THEN EmptyList
    ELSE LET items == Iter(top_products)
         IN  Collect(items, [k \in 1..Len(items.v) |->
                                 TopProductRecord(items.v[k])])

RECURSIVE Flatten(_)
Flatten(lists) ==
    IF lists = <<>> THEN <<>> ELSE lists[1].v \o Flatten(Tail(lists))

\* Lines 32-62
extract_shopee_products(data) ==
    LET per == LET items == Iter(Get(Get(data, "data", EmptyObj), "sections", EmptyList))
               IN  Collect(items, [k \in 1..Len(items.v) |->
                                       SectionProducts(items.v[k])])
    IN  IF per = Raise THEN Raise ELSE JList(Flatten(per.v))

\* Lines 69-92: the record of one suggested query.
SuggestionRecord(q) ==
    LET text == Get(q, "text", JStr(<<>>))
        images == Get(q, "images", None)
        img_id == Or(Get(q, "image", None),
                     IF Truthy(images) THEN Index0(images) ELSE None)
        primary_image == IF Truthy(img_id) THEN ImageUrl(img_id) ELSE None
        encoded_keyword == Quote(text)
    IN  IF q.t # "obj" \/ img_id = Raise \/ encoded_keyword = Raise THEN Raise
        ELSE Dict([name |-> text,
                   sold_count |-> None,
                   label |-> JStr(<<"Suggestion">>),
                   product_id |-> Index0(Get(q, "item_ids", JList(<<None>>))),
                   score |-> SearchFloat(RankScorePattern, Get(q, "tracking", JStr(<<>>))),
                   images |-> IF Truthy(primary_image)
                              THEN JList(<<primary_image>>) ELSE EmptyList,
                   primary_image |-> primary_image,
                   type |-> JStr(<<"Suggestion">>),
                   url |-> JStr(<<"https://shopee.co.id/search?keyword=">>
                                  \o encoded_keyword.v)])

\* Lines 64-94
extract_suggestions(data) ==
    LET items == Iter(Get(Get(data, "data", EmptyObj), "queries", EmptyList))
    IN  Collect(items, [k \in 1..Len(items.v) |->
                            SuggestionRecord(items.v[k])])

\* The record of one category whatever its level.
CategoryRecordAnyLevel(c) ==
    LET display_name == Get(c, "display_name", JStr(<<>>))
        image == Get(c, "image", None)
        slug == IF display_name.t = "str"
                THEN Quote(JStr(Replace(display_name.v, " ", "-"))) ELSE Raise
    IN  IF display_name = Raise \/ slug = Raise THEN Raise
        ELSE Dict([name |-> Or(Get(c, "display_name", None), Get(c, "name", None)),
                   id |-> Get(c, "catid", None),
                   image |-> IF Truthy(image) THEN ImageUrl(image) ELSE None,
                   url |-> JStr(<<"https://shopee.co.id/">> \o slug.v
                                  \o <<"-cat.">> \o Str(Get(c, "catid", None)))])

\* Lines 101-107: the record of one category, skipped unless of level 1.
CategoryRecord(c) ==
    LET level == Get(c, "level", None)
        display_name == Get(c, "display_name", JStr(<<>>))
        image == Get(c, "image", None)
        slug == IF display_name.t = "str"
                THEN Quote(JStr(Replace(display_name.v, " ", "-"))) ELSE Raise
    IN  IF level = Raise THEN Raise
        ELSE IF ~(level.t = "num" /\ level.v = 1) THEN Skip
        ELSE IF slug = Raise THEN Raise
        ELSE Dict([name |-> Or(Get(c, "display_name", None), Get(c, "name", None)),
                   id |-> Get(c, "catid", None),
                   image |-> IF Truthy(image) THEN ImageUrl(image) ELSE None,
                   url |-> JStr(<<"https://shopee.co.id/">> \o slug.v
                                  \o <<"-cat.">> \o Str(Get(c, "catid", None)))])

\* Lines 96-108
extract_categories(data) ==
    LET items == Iter(Get(Get(data, "data", EmptyObj), "category_list", EmptyList))
    IN  Collect(items, [k \in 1..Len(items.v) |->
                            CategoryRecord(items.v[k])])


(***************************************************************************)
(* main_2.py: the extractors of the dynamic pipeline.  parse_info_string   *)
(* (17-26) and extract_categories (79-91) have the statements of main.py;  *)
(* the other four are written differently and are translated here.         *)
(***************************************************************************)
\* main_2.py lines 36-52: the record of one top product.
TopProductRecord_2(item) ==
    LET info_meta == parse_info_string(Get(item, "info", JStr(<<>>)))
        image_ids == Iter(Get(item, "images", EmptyList))
        image_urls == Collect(image_ids, [k \in 1..Len(image_ids.v) |->
                                              ImageUrl(image_ids.v[k])])
        cat_id == Or(Get(item, "knodeid", None), Get(item, "key", None))
        product_url == IF cat_id = Raise THEN Raise
                       ELSE IF ~Truthy(cat_id) THEN JStr(<<"#">>)
                       ELSE IF Quote(cat_id) = Raise THEN Raise
                       ELSE JStr(<<"https://shopee.co.id/top_products?catId=">>
                                   \o Quote(cat_id).v)
    IN  IF item.t # "obj" \/ image_urls = Raise THEN Raise
        ELSE Dict([name |-> Get(item, "name", None),
                   sold_count |-> Get(item, "count", None),
                   label |-> JStr(<<"Top Product">>),
                   product_id |-> Get(item, "key", None),
                   score |-> Get(info_meta, ScoreKey, None),
                   images |-> image_urls,
                   primary_image |-> IF Truthy(image_urls) THEN image_urls.v[1] ELSE None,
                   type |-> JStr(<<"Top Product">>),
                   url |-> product_url])

\* main_2.py lines 32-52: the records of one section.
SectionProducts_2(section) ==
    LET top_products == Get(Get(section, "data", EmptyObj), "top_product", None) IN
    IF top_products = Raise THEN Raise
    ELSE IF ~Truthy(top_products) THEN EmptyList
    ELSE LET items == Iter(top_products)
         IN  Collect(items, [k \in 1..Len(items.v) |->
                                 TopProductRecord_2(items.v[k])])

\* main_2.py lines 28-53
extract_shopee_products_2(data) ==
    LET per == LET items == Iter(Get(Get(data, "data", EmptyObj), "sections", EmptyList))
               IN  Collect(items, [k \in 1..Len(items.v) |->
                                       SectionProducts_2(items.v[k])])
    IN  IF per = Raise THEN Raise ELSE JList(Flatten(per.v))

\* main_2.py lines 59-76: the record of one suggested query.
SuggestionRecord_2(q) ==
    LET text == Get(q, "text", JStr(<<>>))
        img_id == Or(Get(q, "image", None),
                     IF Truthy(Get(q, "images", None))
                     THEN Index0(Get(q, "images", None)) ELSE None)
        primary_image == IF Truthy(img_id) THEN ImageUrl(img_id) ELSE None
        tracking == Get(q, "tracking", JStr(<<>>))
        score == SearchFloat(RankScorePattern, tracking)
    IN  IF q.t # "obj" \/ img_id = Raise \/ Quote(text) = Raise THEN Raise
        ELSE Dict([name |-> text,
                   sold_count |-> None,
                   label |-> JStr(<<"Suggestion">>),
                   product_id |-> Index0(Get(q, "item_ids", JList(<<None>>))),
                   score |-> score,
                   images |-> IF Truthy(primary_image)
                              THEN JList(<<primary_image>>) ELSE EmptyList,
                   primary_image |-> primary_image,
                   type |-> JStr(<<"Suggestion">>),
                   url |-> JStr(<<"https://shopee.co.id/search?keyword=">>
                                  \o Quote(text).v)])

\* main_2.py lines 55-77
extract_suggestions_2(data) ==
    LET queries == Iter(Get(Get(data, "data", EmptyObj), "queries", EmptyList))
    IN  Collect(queries, [k \in 1..Len(queries.v) |->
                              SuggestionRecord_2(queries.v[k])])

\* main_2.py lines 96-114: the record of one flash sale item.
FlashSaleRecord_2(it) ==
    LET price == TrueDiv(Or(Get(it, "price", None), JNum(0)), PriceScale)
        old_price == TrueDiv(Or(Get(it, "price_before_discount", None), JNum(0)),
                             PriceScale)
        img_id == Get(it, "image", None)
        primary_image == IF Truthy(img_id) THEN ImageUrl(img_id) ELSE None
        itemid == Get(it, "itemid", None)
        shopid == Get(it, "shopid", None)
    IN  IF it.t # "obj" THEN Raise
        ELSE Dict([name |-> Get(it, "name", None),
                   price |-> price,
                   old_price |-> old_price,
                   discount |-> Get(it, "discount", JStr(<<>>)),
                   sold_count |-> Get(it, "historical_sold", None),
                   label |-> JStr(<<"Flash Sale">>),
                   product_id |-> JStr(Str(shopid) \o <<".">> \o Str(itemid)),
                   score |-> Get(Get(it, "item_rating", EmptyObj), "rating_star", None),
                   images |-> IF Truthy(primary_image)
                              THEN JList(<<primary_image>>) ELSE EmptyList,
                   primary_image |-> primary_image,
                   type |-> JStr(<<"Flash Sale">>),
                   url |-> ProductUrl(shopid, itemid)])

\* main_2.py lines 92-115
extract_flash_sales_2(data) ==
    LET items == Iter(Get(Get(data, "data", EmptyObj), "items", EmptyList))
    IN  Collect(items, [k \in 1..Len(items.v) |->
                            FlashSaleRecord_2(items.v[k])])

\* main_2.py lines 124-143: the record of one item of a daily discover feed.
DailyDiscoverRecord_2(it) ==
    LET dp == Get(it, "item_card_display_price", EmptyObj)
        price == TrueDiv(Or(Get(dp, "price", None), JNum(0)), PriceScale)
        old_price == TrueDiv(Or(Get(dp, "strikethrough_price", None), JNum(0)),
                             PriceScale)
        img_id == Get(it, "image", None)
        primary_image == IF Truthy(img_id) THEN ImageUrl(img_id) ELSE None
        itemid == Get(it, "itemid", None)
        shopid == Get(it, "shopid", None)
        imgs == Iter(SliceTo(Get(it, "images", EmptyList), 3))
    IN  IF it.t # "obj" THEN Raise
        ELSE Dict([name |-> Get(it, "name", None),
                   price |-> price,
                   old_price |-> old_price,
                   discount |-> Get(dp, "discount_text", JStr(<<>>)),
                   sold_count |-> Or(Get(it, "historical_sold", None), JNum(0)),
                   label |-> JStr(<<"Daily Discover">>),
                   product_id |-> JStr(Str(shopid) \o <<".">> \o Str(itemid)),
                   score |-> Get(Get(it, "item_rating", EmptyObj), "rating_star", None),
                   images |-> Collect(imgs, [k \in 1..Len(imgs.v) |->
                                                 ImageUrl(imgs.v[k])]),
                   primary_image |-> primary_image,
                   type |-> JStr(<<"Daily Discover">>),
                   url |-> ProductUrl(shopid, itemid)])

\* main_2.py lines 121-143: one feed: skipped unless an item_card with a
\* truthy item.
DailyDiscoverFeed_2(feed) ==
    LET type == Get(feed, "type", None)
        it == Get(Get(feed, "item_card", EmptyObj), "item", EmptyObj)
    IN  IF type = Raise THEN Raise
        ELSE IF type # JStr(<<"item_card">>) THEN Skip
        ELSE IF it = Raise THEN Raise
        ELSE IF ~Truthy(it) THEN Skip
        ELSE DailyDiscoverRecord_2(it)

\* main_2.py lines 117-144
extract_daily_discover_2(data) ==
    LET feeds == Iter(Get(Get(data, "data", EmptyObj), "feeds", EmptyList))
    IN  Collect(feeds, [k \in 1..Len(feeds.v) |->
                            DailyDiscoverFeed_2(feeds.v[k])])

(***************************************************************************)
(* The payloads handed to the extractors: lists of well-formed items with  *)
(* at most one item that departs from the documented shape in one field.   *)
(***************************************************************************)
Drop(f, k) == [x \in DOMAIN f \ {k} |-> f[x]]
With(f, k, v) == (k :> v) @@ f

\* The dict f, f without one key, f with one key null, and f with a[1] set to a[2].
Variants(f, alts) ==
    {JObj(f)} \cup {JObj(Drop(f, k)) : k \in DOMAIN f}
              \cup {JObj(With(f, k, None)) : k \in DOMAIN f}
              \cup {JObj(With(f, a[1], a[2])) : a \in alts}

\* The lists of at most MaxFeed items, all base but at most one.
ListsOneOdd(base, shapes) ==
    {JList([k \in 1..n |-> IF k = j THEN x ELSE base]) :
        n \in 0..MaxFeed, j \in 1..MaxFeed, x \in shapes}

\* data.<key> = list for each list, and the payloads without the container.
PayloadsOf(key, lists) ==
    {EmptyObj, JObj([data |-> None]), JObj([data |-> EmptyObj]),
     JObj([error |-> JStr(<<"Failed to fetch">>)]),
     JObj([data |-> JObj(key :> None)])}
        \cup {JObj([data |-> JObj(key :> q)]) : q \in lists}

ImgA == JStr(<<"a", "1">>)
ImgB == JStr(<<"b", "2">>)
ImgC == JStr(<<"c", "3">>)
ImgD == JStr(<<"d", "4">>)
ImageFields == {None, JStr(<<>>), ImgA}
ImagesFields ==
    {None, EmptyList, JList(<<ImgA>>), JList(<<ImgB, ImgA>>),
     JList(<<ImgA, ImgB, ImgC, ImgD>>)}

FlashBase ==
    [name |-> JStr(<<"k", "a", "o", "s">>), price |-> JNum(12345600),
     price_before_discount |-> JNum(20000000), discount |-> JStr(<<"3", "8", "%">>),
     image |-> ImgA, itemid |-> JNum(11), shopid |-> JNum(22),
     historical_sold |-> JNum(5),
     item_rating |-> JObj([rating_star |-> JFloat(48, 1)])]
FlashItems ==
    Variants(FlashBase,
             {<<"image", JStr(<<>>)>>, <<"price", JNum(0)>>,
              <<"price", JStr(<<"9">>)>>, <<"price", JNum(1000200)>>,
              <<"price_before_discount", JNum(7)>>, <<"item_rating", EmptyObj>>,
              <<"historical_sold", JNum(0)>>})
        \cup {None}
FlashPayloads == PayloadsOf("items", ListsOneOdd(JObj(FlashBase), FlashItems))

DiscoverBase ==
    [name |-> JStr(<<"t", "a", "s">>),
     item_card_display_price |->
        JObj([price |-> JNum(5000000), strikethrough_price |-> JNum(7500000),
              discount_text |-> JStr(<<"-", "3", "3", "%">>)]),
     image |-> ImgA, images |-> JList(<<ImgA, ImgB>>),
     itemid |-> JNum(33), shopid |-> JNum(44), historical_sold |-> JNum(7),
     item_rating |-> JObj([rating_star |-> JFloat(5, 0)])]
DiscoverItems ==
    Variants(DiscoverBase,
             {<<"item_card_display_price", EmptyObj>>,
              <<"item_card_display_price", JObj([price |-> None])>>,
              <<"item_card_display_price",
                JObj([price |-> JNum(1000200), strikethrough_price |-> JNum(1490000)])>>,
              <<"historical_sold", JNum(0)>>, <<"item_rating", EmptyObj>>})
        \cup {JObj(With(With(DiscoverBase, "image", a), "images", b)) :
                a \in ImageFields, b \in ImagesFields}
        \cup {JObj(Drop(With(DiscoverBase, "image", a), "images")) : a \in ImageFields}
        \cup {JObj(Drop(With(DiscoverBase, "images", b), "image")) : b \in ImagesFields}
ItemCard(it) == JObj([type |-> JStr(<<"item_card">>), item_card |-> JObj([item |-> it])])
DiscoverFeeds ==
    {ItemCard(it) : it \in DiscoverItems \cup {None, EmptyObj}}
        \cup {JObj([type |-> JStr(<<"item_card">>)]),
              JObj([type |-> JStr(<<"item_card">>), item_card |-> None]),
              JObj([type |-> JStr(<<"ads">>), item_card |-> JObj([item |-> JObj(DiscoverBase)])]),
              JObj([item_card |-> JObj([item |-> JObj(DiscoverBase)])]),
              None}
DiscoverPayloads ==
    PayloadsOf("feeds", ListsOneOdd(ItemCard(JObj(DiscoverBase)), DiscoverFeeds))

\* The info strings: one or two comma-separated fragments.
InfoFragments ==
    {<<"S", "C", "O", "R", "E", ":", "4", ".", "8">>,
     <<"s", "c", "o", "r", "e", ":", "9">>,
     <<"S", "c", "o", "r", "e", " ", ":", " ", "x">>,
     <<"c", "a", "t", ":", "{", "a", "}">>, <<"{", "k", ":", "v", "}">>,
     <<"a", ":", "b", ":", "c">>,
     <<" ", "T", "y", "p", "e", " ", ":", " ", "H", "o", "t", " ">>,
     <<"p", "l", "a", "i", "n">>, <<>>,
     <<"S", "C", "O", "R", "E", ":", "1", ".", "2", ".", "3">>,
     <<"S", "C", "O", "R", "E", ":", ".">>,
     <<"x", "S", "C", "O", "R", "E", ":", "5", "7">>,
     <<"S", "C", "O", "R", "E", ":">>, <<":", "v">>, <<"k", ":">>}
InfoStrings ==
    {JStr(a) : a \in InfoFragments}
        \cup {JStr(a \o <<",">> \o b) : a, b \in InfoFragments}

TopBase ==
    [name |-> JStr(<<"S", "e", "p", "a", "t", "u">>), count |-> JNum(120), key |-> JStr(<<"k", " ", "1">>),
     knodeid |-> JStr(<<"n", "/", "7">>), info |-> JStr(<<"S", "C", "O", "R", "E", ":", "4", ".", "8", ",", "L", "a", "b", "e", "l", ":", "H", "o", "t">>),
     images |-> JList(<<ImgA, ImgB>>)]
TopItems ==
    Variants(TopBase,
             {<<"images", EmptyList>>, <<"images", JList(<<ImgB>>)>>,
              <<"images", JList(<<JNum(7), None>>)>>, <<"images", JNum(7)>>,
              <<"knodeid", JStr(<<>>)>>, <<"knodeid", JNum(9)>>,
              <<"knodeid", JStr(<<"a", "&", "b", "=", "c">>)>>, <<"key", JStr(<<>>)>>,
              <<"info", JNum(3)>>, <<"info", JStr(<<>>)>>})
        \cup {JObj(With(TopBase, "info", x)) : x \in InfoStrings}
        \cup {JObj(Drop(Drop(TopBase, "knodeid"), "key")), None}
TopSection(prods) == JObj([data |-> JObj([top_product |-> prods])])
TopSections ==
    {TopSection(q) : q \in ListsOneOdd(JObj(TopBase), TopItems) \cup {None}}
        \cup {EmptyObj, JObj([data |-> None]), JObj([data |-> EmptyObj]), None}
TopPayloads ==
    PayloadsOf("sections",
               ListsOneOdd(TopSection(JList(<<JObj(TopBase)>>)), TopSections))

Trackings ==
    {<<"{", "\"", "r", "a", "n", "k", "_", "s", "c", "o", "r", "e", "\"", ":", "0", ".", "5", ",", "\"", "x", "\"", ":", "1", "}">>,
     <<"{", "\"", "x", "\"", ":", "1", "}">>,
     <<"\"", "r", "a", "n", "k", "_", "s", "c", "o", "r", "e", "\"", ":", "1", ".", "2", ".", "3">>,
     <<"\"", "r", "a", "n", "k", "_", "s", "c", "o", "r", "e", "\"", ":", ".">>,
     <<"\"", "r", "a", "n", "k", "_", "s", "c", "o", "r", "e", "\"", ":", " ", "0", ".", "5">>,
     <<"r", "a", "n", "k", "_", "s", "c", "o", "r", "e", ":", "5">>,
     <<"\"", "r", "a", "n", "k", "_", "s", "c", "o", "r", "e", "\"", ":", "0", "7", "\"", "r", "a", "n", "k", "_", "s", "c", "o", "r", "e", "\"", ":", "9">>,
     <<"\"", "r", "a", "n", "k", "_", "s", "c", "o", "r", "e", "\"", ":">>}
SuggestionBase ==
    [text |-> JStr(<<"t", "a", "s", " ", "p", "r", "i", "a">>), image |-> ImgA, images |-> JList(<<ImgB>>),
     tracking |-> JStr(<<"{", "\"", "r", "a", "n", "k", "_", "s", "c", "o", "r", "e", "\"", ":", "0", ".", "5", ",", "\"", "x", "\"", ":", "1", "}">>),
     item_ids |-> JList(<<JNum(7), JNum(8)>>)]
SuggestionItems ==
    Variants(SuggestionBase,
             {<<"text", JStr(<<"5", "0", "%", " ", "o", "f", "f", "?">>)>>, <<"text", JStr(<<>>)>>, <<"text", JNum(5)>>,
              <<"item_ids", EmptyList>>, <<"item_ids", JList(<<None>>)>>,
              <<"item_ids", JStr(<<"a", "b">>)>>, <<"tracking", JNum(1)>>})
        \cup {JObj(With(SuggestionBase, "tracking", JStr(x))) : x \in Trackings}
        \cup {JObj(With(With(SuggestionBase, "image", a), "images", b)) :
                a \in ImageFields, b \in ImagesFields \cup {ImgC, JNum(4), EmptyObj}}
        \cup {JObj(Drop(With(SuggestionBase, "image", a), "images")) : a \in ImageFields}
        \cup {JObj(Drop(With(SuggestionBase, "images", b), "image")) : b \in ImagesFields}
        \cup {None}
SuggestionPayloads ==
    PayloadsOf("queries", ListsOneOdd(JObj(SuggestionBase), SuggestionItems))

CategoryBase ==
    [level |-> JNum(1), display_name |-> JStr(<<"I", "b", "u", " ", "&", " ", "B", "a", "y", "i">>),
     name |-> JStr(<<"i", "b", "u">>), catid |-> JNum(11043), image |-> ImgA]
CategoryItems ==
    Variants(CategoryBase,
             {<<"level", JNum(2)>>, <<"level", JStr(<<"1">>)>>,
              <<"display_name", JStr(<<>>)>>, <<"display_name", JNum(3)>>,
              <<"image", JStr(<<>>)>>, <<"catid", JStr(<<"c", "5">>)>>})
        \cup {JObj(With(With(CategoryBase, "level", JNum(2)), "display_name", None)),
              None}
CategoryPayloads ==
    PayloadsOf("category_list", ListsOneOdd(JObj(CategoryBase), CategoryItems))

Payloads ==
    FlashPayloads \cup DiscoverPayloads \cup TopPayloads \cup SuggestionPayloads
        \cup CategoryPayloads \cup InfoStrings

(***************************************************************************)
(* An extractor applied to a payload.                                      *)
(***************************************************************************)
Apply(name, result) ==
    /\ flow = "extract" /\ pc = "start"
    /\ extractor' = name /\ out' = result /\ pc' = "done"
    /\ UNCHANGED <<flow, ctx, intr, harvest_vars, files, fetch_vars, replay_vars,
                   payload>>

ExtractFlashSales == Apply("extract_flash_sales", extract_flash_sales(payload))
ExtractDailyDiscover == Apply("extract_daily_discover", extract_daily_discover(payload))
ExtractShopeeProducts ==
    Apply("extract_shopee_products", extract_shopee_products(payload))
ExtractSuggestions == Apply("extract_suggestions", extract_suggestions(payload))
ExtractCategories == Apply("extract_categories", extract_categories(payload))
ParseInfoString == Apply("parse_info_string", parse_info_string(payload))
\* main_2.py lines 314-318: the extractors of the dynamic pipeline.
ExtractShopeeProducts_2 ==
    Apply("main_2.extract_shopee_products", extract_shopee_products_2(payload))
ExtractCategories_2 ==
    Apply("main_2.extract_categories", extract_categories(payload))
ExtractFlashSales_2 ==
    Apply("main_2.extract_flash_sales", extract_flash_sales_2(payload))
ExtractDailyDiscover_2 ==
    Apply("main_2.extract_daily_discover", extract_daily_discover_2(payload))
ExtractSuggestions_2 ==
    Apply("main_2.extract_suggestions", extract_suggestions_2(payload))

InitExtract ==
    /\ flow = "extract"
    /\ InitCommon
    /\ files = [f \in FileNames |-> Prev]
    /\ payload \in Payloads

NextExtract ==
    \/ ExtractFlashSales
    \/ ExtractDailyDiscover
    \/ ExtractShopeeProducts
    \/ ExtractSuggestions
    \/ ExtractCategories
    \/ ParseInfoString
    \/ ExtractShopeeProducts_2
    \/ ExtractCategories_2
    \/ ExtractFlashSales_2
    \/ ExtractDailyDiscover_2
    \/ ExtractSuggestions_2

SpecExtract == InitExtract /\ [][NextExtract]_vars

(***************************************************************************)
(* main.py: the report pipeline of lines 479-506.  It has no await: the    *)
(* whole run is one step.                                                  *)
(***************************************************************************)
\* load_json_data without its try
load_json_data_unguarded(content) ==
    IF content \in {Missing, Corrupt} THEN Raise ELSE content

\* Lines 6-12: the parsed content; {} for a file that is absent or not JSON.
load_json_data(content) ==
    IF content \in {Missing, Corrupt} THEN EmptyObj ELSE content

\* Lines 198-199, 208 and 225: formatting sold_count with ',' and score with
\* '.2f' raises unless the value is a number or falsy.
CardRaises(p) ==
    LET sold_count == Get(p, "sold_count", None)
        score == Get(p, "score", None)
    IN  \/ Truthy(sold_count) /\ sold_count.t \notin {"num", "float"}
        \/ Truthy(score) /\ score.t \notin {"num", "float"}

\* Lines 191-233: get_cards(items), "" for no items.
get_cards(items) ==
    IF \E k \in 1..Len(items.v) : CardRaises(items.v[k]) THEN Raise
    ELSE JStr(<<>>)

\* Lines 247-250: the related links of the footer.
RelatedLinks(footer_data) ==
    IF ~Truthy(footer_data) THEN JStr(<<>>)
    ELSE LET links == Get(footer_data, "related_links", None) IN
         IF links = Raise THEN Raise
         ELSE IF ~Truthy(links) THEN JStr(<<>>)
         ELSE LET each == Iter(links) IN
              IF each = Raise THEN Raise
              ELSE IF \E k \in 1..Len(each.v) :
                         \/ each.v[k].t # "obj"
                         \/ ~({"url", "name"} \subseteq DOMAIN each.v[k].v)
                   THEN Raise
              ELSE JStr(<<>>)

\* Lines 188-477: the report written for the six arguments, or the exception.
\* get_cards runs for products always and for the other lists when non-empty.
generate_html_report(args) ==
    IF \/ RelatedLinks(args.v.footer_data) = Raise
       \/ get_cards(args.v.flash_sales) = Raise
       \/ get_cards(args.v.daily_discover) = Raise
       \/ get_cards(args.v.products) = Raise
       \/ get_cards(args.v.suggestions) = Raise
    THEN Raise
    ELSE [t |-> "html", of |-> args]

\* Lines 479-506
ReportPipeline ==
    /\ flow = "report" /\ pc = "start"
    /\ LET rec_data == load_json_data(files["response_shopee.json"])
           sug_data == load_json_data(files["search_suggestion_shopee.json"])
           footer_data == load_json_data(files["response_footer.json"])
           cat_data == load_json_data(files["response_category.json"])
           flash_data == load_json_data(files["response_flash_sale.json"])
           discover_data == load_json_data(files["response_daily_discover.json"])
           loaded == {rec_data, sug_data, footer_data, cat_data, flash_data,
                      discover_data}
           args == IF Raise \in loaded THEN Raise
                   ELSE Dict([products |-> extract_shopee_products(rec_data),
                              suggestions |-> IF Truthy(sug_data)
                                              THEN extract_suggestions(sug_data)
                                              ELSE EmptyList,
                              footer_data |-> footer_data,
                              categories |-> extract_categories(cat_data),
                              flash_sales |-> IF Truthy(flash_data)
                                              THEN extract_flash_sales(flash_data)
                                              ELSE EmptyList,
                              daily_discover |-> IF Truthy(discover_data)
                                                 THEN extract_daily_discover(discover_data)
                                                 ELSE EmptyList])
           report == IF args = Raise THEN Raise ELSE generate_html_report(args)
       IN  /\ extractor' = "__main__"
           /\ out' = args
           /\ pc' = IF report = Raise THEN "raised" ELSE "done"
           /\ files' = IF report = Raise THEN files
                       ELSE [files EXCEPT !["report.html"] = report]
    /\ UNCHANGED <<flow, ctx, intr, harvest_vars, fetch_vars, replay_vars, payload>>

\* The content of each input, besides absent: well-formed, or with one field
\* an extractor or the report stumbles on.
DataOf(key, item) == JObj([data |-> JObj(key :> JList(<<item>>))])
NumberText == JStr(<<"1", "2">>)
RecFiles ==
    {Missing, Corrupt,
     DataOf("sections", TopSection(JList(<<JObj(TopBase)>>))),
     DataOf("sections", TopSection(JList(<<JObj(Drop(TopBase, "info"))>>))),
     DataOf("sections", TopSection(JList(<<JObj(With(TopBase, "count", NumberText))>>)))}
SugFiles ==
    {Missing, Corrupt, EmptyList, DataOf("queries", JObj(SuggestionBase)),
     DataOf("queries", JObj(With(SuggestionBase, "item_ids", EmptyList)))}
FooterFiles ==
    {Missing, EmptyObj,
     JObj([related_links |-> JList(<<JObj([url |-> ImgA, name |-> ImgB])>>)]),
     JObj([related_links |-> JList(<<JObj([name |-> ImgB])>>)])}
CatFiles ==
    {Missing, Corrupt, DataOf("category_list", JObj(CategoryBase)),
     DataOf("category_list", JObj(With(CategoryBase, "display_name", None)))}
FlashFiles ==
    {Missing, DataOf("items", JObj(FlashBase)),
     DataOf("items", JObj(With(FlashBase, "historical_sold", NumberText)))}
DiscoverFiles ==
    {Missing, EmptyList, DataOf("feeds", ItemCard(JObj(DiscoverBase)))}

InitReport ==
    /\ flow = "report"
    /\ InitCommon
    /\ payload = None
    /\ \E rec \in RecFiles, sug \in SugFiles, footer \in FooterFiles,
          cat \in CatFiles, flash \in FlashFiles, discover \in DiscoverFiles :
          files = [f \in FileNames |->
                      CASE f = "response_shopee.json" -> rec
                        [] f = "search_suggestion_shopee.json" -> sug
                        [] f = "response_footer.json" -> footer
                        [] f = "response_category.json" -> cat
                        [] f = "response_flash_sale.json" -> flash
                        [] f = "response_daily_discover.json" -> discover
                        [] OTHER -> Prev]

\* The two programs that read artifacts of earlier stages.
NextArtifacts ==
    \/ NextReplay
    \/ ReportPipeline

SpecArtifacts == (InitReplay \/ InitReport) /\ [][NextArtifacts]_vars

\* The extractors whose records carry images and primary_image.
ProductExtractors ==
    {"extract_shopee_products", "extract_suggestions", "extract_flash_sales",
     "extract_daily_discover"}

\* C10: in every record a product extractor returns, primary_image is
\* images[0] when images is non-empty and is absent (None) when images is
\* empty.
C10_PrimaryImageIsFirst ==
    (pc = "done" /\ extractor \in ProductExtractors /\ out.t = "list") =>
        \A k \in 1..Len(out.v) :
            LET rec == out.v[k].v IN
            IF Len(rec.images.v) > 0
            THEN rec.primary_image = rec.images.v[1]
            ELSE rec.primary_image = None

\* C11: for an info string with a SCORE:<number> token, the score of the
\* metadata map is the float value of the number, no fragment with a '{'
\* contributes a key, and the score of a TopProduct record is not a string.
C11_ScoreIsFloat ==
    /\ (pc = "done" /\ extractor = "parse_info_string" /\ payload.t = "str"
           /\ out.t = "obj" /\ SearchNumber(ScorePattern, payload.v) # None) =>
          LET parts == Split(payload.v, ",")
              keyed == {k \in 1..Len(parts) :
                           Has(parts[k], ":") /\ ~Has(parts[k], "{")}
              KeyOf(k) == ToLower(Strip(SubSeq(parts[k], 1, First(parts[k], ":") - 1)))
          IN  /\ ScoreKey \in DOMAIN out.v
              /\ out.v[ScoreKey] = ParseFloat(SearchNumber(ScorePattern, payload.v).v)
              /\ \A key \in DOMAIN out.v \ {ScoreKey} : \E k \in keyed : key = KeyOf(k)
    /\ (pc = "done" /\ extractor = "extract_shopee_products" /\ out.t = "list") =>
          \A k \in 1..Len(out.v) : out.v[k].v.score.t \in {"float", "none"}

\* The key under data of the list each extractor walks.
ContainerKey ==
    [extract_shopee_products |-> "sections", extract_suggestions |-> "queries",
     extract_categories |-> "category_list", extract_flash_sales |-> "items",
     extract_daily_discover |-> "feeds"]

\* data.get('data', {}).get(key, []) of the payload for the extractor applied.
Container ==
    IF extractor \in DOMAIN ContainerKey
    THEN Get(Get(payload, "data", EmptyObj), ContainerKey[extractor], EmptyList)
    ELSE Raise

\* C12: when every entry of the walked list is a dict and one of them is
\* malformed in a field, the extractor is not aborted and returns the record
\* of every well-formed entry.
C12_MalformedItemContained ==
    (pc = "done" /\ Container.t = "list"
        /\ \A k \in 1..Len(Container.v) : Container.v[k].t = "obj") =>
        /\ out.t = "list"
        /\ \A k \in 1..Len(Container.v) :
              LET it == Container.v[k]
                  rec == CASE it = JObj(FlashBase) -> FlashSaleRecord(it)
                           [] it = ItemCard(JObj(DiscoverBase)) -> DailyDiscoverFeed(it)
                           [] it = JObj(SuggestionBase) -> SuggestionRecord(it)
                           [] it = JObj(CategoryBase) -> CategoryRecord(it)
                           [] it = TopSection(JList(<<JObj(TopBase)>>)) ->
                                  TopProductRecord(JObj(TopBase))
                           [] OTHER -> Skip
              IN  rec # Skip => \E j \in 1..Len(out.v) : out.v[j] = rec

\* C13: a record's name, price, old_price and discount are absent (None)
\* when the raw item has no source field for them.
C13_AbsentStaysAbsent ==
    (pc = "done" /\ out.t = "list" /\ Container.t = "list"
        /\ Len(out.v) = Len(Container.v)) =>
        \A k \in 1..Len(out.v) :
            LET rec == out.v[k].v
                raw == Container.v[k].v
                Kept(src, key, field) == key \notin DOMAIN src => rec[field].t = "none"
            IN  /\ extractor = "extract_flash_sales" =>
                      /\ Kept(raw, "name", "name")
                      /\ Kept(raw, "price", "price")
                      /\ Kept(raw, "price_before_discount", "old_price")
                      /\ Kept(raw, "discount", "discount")
                /\ extractor = "extract_daily_discover" =>
                      LET it == raw.item_card.v.item.v
                          display_price == Get(JObj(it), "item_card_display_price", EmptyObj).v
                      IN  /\ Kept(it, "name", "name")
                          /\ Kept(display_price, "price", "price")
                          /\ Kept(display_price, "strikethrough_price", "old_price")
                          /\ Kept(display_price, "discount_text", "discount")
                /\ extractor = "extract_suggestions" =>
                      Kept(raw, "text", "name")

\* C14 (as claimed): for a raw item with the integer price p and the integer
\* old price q, the record's price times 100000 is p and its old_price times
\* 100000 is q.
C14_TimesScaleIsRaw ==
    (pc = "done" /\ extractor \in {"extract_flash_sales", "extract_daily_discover"}
        /\ out.t = "list" /\ Container.t = "list"
        /\ Len(out.v) = Len(Container.v)) =>
        \A k \in 1..Len(out.v) :
            LET rec == out.v[k].v
                src == IF extractor = "extract_flash_sales" THEN Container.v[k]
                       ELSE Get(Container.v[k].v.item_card.v.item,
                                "item_card_display_price", EmptyObj)
                p == Get(src, "price", None)
                q == Get(src, IF extractor = "extract_flash_sales"
                              THEN "price_before_discount"
                              ELSE "strikethrough_price", None)
            IN  /\ p.t = "num" => TimesScale(rec.price) = p
                /\ q.t = "num" => TimesScale(rec.old_price) = q

\* C14 (amended): the record's price is the float of p / 100000 and its
\* old_price the float of q / 100000: the decimal fraction they stand for,
\* scaled by 100000, is the raw integer.
C14_PriceIsQuotient ==
    (pc = "done" /\ extractor \in {"extract_flash_sales", "extract_daily_discover"}
        /\ out.t = "list" /\ Container.t = "list"
        /\ Len(out.v) = Len(Container.v)) =>
        \A k \in 1..Len(out.v) :
            LET rec == out.v[k].v
                src == IF extractor = "extract_flash_sales" THEN Container.v[k]
                       ELSE Get(Container.v[k].v.item_card.v.item,
                                "item_card_display_price", EmptyObj)
                p == Get(src, "price", None)
                q == Get(src, IF extractor = "extract_flash_sales"
                              THEN "price_before_discount"
                              ELSE "strikethrough_price", None)
                Quotient(x, n) ==
                    /\ x.t = "float" /\ x.e <= Log10(PriceScale)
                    /\ x.m * 10 ^ (Log10(PriceScale) - x.e) = n
            IN  /\ p.t = "num" => Quotient(rec.price, p.v)
                /\ q.t = "num" => Quotient(rec.old_price, q.v)

\* A flash sale record built from the raw price 12345600 carries 123.456, and
\* one built from 1000200 carries 10.002, which does not scale back exactly.
C14_Witness ==
    /\ pc = "done" /\ extractor = "extract_flash_sales" /\ out.t = "list"
    /\ \E k \in 1..Len(out.v) :
          /\ Get(Container.v[k], "price", None) = JNum(12345600)
          /\ out.v[k].v.price = [t |-> "float", m |-> 123456, e |-> 3]
    /\ \E k \in 1..Len(out.v) :
          /\ Get(Container.v[k], "price", None) = JNum(1000200)
          /\ out.v[k].v.price = [t |-> "float", m |-> 10002, e |-> 3]
          /\ ~ScalesBackExactly(1000200)

\* The type each extractor stamps on its records (lines 58, 90, 141, 182);
\* extract_categories stamps none.
TypeOf ==
    [extract_shopee_products |-> JStr(<<"Top Product">>),
     extract_suggestions |-> JStr(<<"Suggestion">>),
     extract_categories |-> JStr(<<"Category">>),
     extract_flash_sales |-> JStr(<<"Flash Sale">>),
     extract_daily_discover |-> JStr(<<"Daily Discover">>)]

\* C15: every record of each of the five extractors carries the extractor's
\* type and the fields name, label, product_id, images and url.
C15_RecordsAreProductRecords ==
    (pc = "done" /\ extractor \in DOMAIN TypeOf /\ out.t = "list") =>
        \A k \in 1..Len(out.v) :
            LET rec == out.v[k].v IN
            /\ {"type", "name", "label", "product_id", "images", "url"}
                   \subseteq DOMAIN rec
            /\ rec.type = TypeOf[extractor]

\* C16 (as claimed): extract_categories returns one record per entry of level
\* 1, in order, and its url is the base, the display name with every space
\* replaced by a hyphen, '-cat.' and the catid.
C16_CategorySlugHyphens ==
    (pc = "done" /\ extractor = "extract_categories" /\ out.t = "list"
        /\ Container.t = "list") =>
        LET level1 == SelectSeq(Container.v,
                                LAMBDA c : Get(c, "level", None) = JNum(1))
        IN  /\ Len(out.v) = Len(level1)
            /\ \A k \in 1..Len(level1) :
                  /\ out.v[k].v.id = Get(level1[k], "catid", None)
                  /\ out.v[k].v.url.v =
                         <<"https://shopee.co.id/">>
                             \o Replace(Get(level1[k], "display_name", JStr(<<>>)).v,
                                        " ", "-")
                             \o <<"-cat.">> \o Str(Get(level1[k], "catid", None))

\* C16 (amended): as above, with the hyphenated display name percent-encoded.
C16_CategorySlugQuoted ==
    (pc = "done" /\ extractor = "extract_categories" /\ out.t = "list"
        /\ Container.t = "list") =>
        LET level1 == SelectSeq(Container.v,
                                LAMBDA c : Get(c, "level", None) = JNum(1))
        IN  /\ Len(out.v) = Len(level1)
            /\ \A k \in 1..Len(level1) :
                  /\ out.v[k].v.id = Get(level1[k], "catid", None)
                  /\ out.v[k].v.url.v =
                         <<"https://shopee.co.id/">>
                             \o QuoteChars(
                                    Replace(Get(level1[k], "display_name", JStr(<<>>)).v,
                                            " ", "-"))
                             \o <<"-cat.">> \o Str(Get(level1[k], "catid", None))

\* Two entries, the first of level 1 ('Ibu & Bayi', 11043) and the second of
\* level 2: one record, with the url .../Ibu-%26-Bayi-cat.11043.
C16_Witness ==
    /\ pc = "done" /\ extractor = "extract_categories" /\ out.t = "list"
    /\ Container.t = "list" /\ Len(Container.v) = 2 /\ Len(out.v) = 1
    /\ Container.v[1] = JObj(CategoryBase)
    /\ Get(Container.v[2], "level", None) = JNum(2)
    /\ out.v[1].v.url.v =
           <<"https://shopee.co.id/", "I", "b", "u", "-", "%", "2", "6", "-",
             "B", "a", "y", "i", "-cat.", "1", "1", "0", "4", "3">>

\* C17: an extractor returns the empty list for a payload whose list at the
\* expected path is empty, for the empty dict and for an error marker without
\* a 'data' key.
C17_EmptyInEmptyOut ==
    (pc = "done" /\ extractor \in DOMAIN ContainerKey
        /\ \/ payload = EmptyObj
           \/ payload.t = "obj" /\ "data" \notin DOMAIN payload.v
           \/ /\ payload.t = "obj" /\ "data" \in DOMAIN payload.v
              /\ payload.v.data.t = "obj"
              /\ ContainerKey[extractor] \in DOMAIN payload.v.data.v
              /\ payload.v.data.v[ContainerKey[extractor]] = EmptyList) =>
        out = EmptyList

\* extract_daily_discover applied to {'data': {'feeds': []}}, and
\* extract_suggestions applied to {'error': 'Failed to fetch'}.
C17_Witness ==
    /\ pc = "done" /\ out = EmptyList
    /\ \/ /\ extractor = "extract_daily_discover"
          /\ payload = JObj([data |-> JObj([feeds |-> EmptyList])])
       \/ /\ extractor = "extract_suggestions"
          /\ payload = JObj([error |-> JStr(<<"Failed to fetch">>)])

\* C18: an absent input of the report pipeline is read as the empty dict, so
\* its extractor yields the empty list, and with every input absent the
\* report is still written; a replay without the TokenRecord artifact ends
\* without a GET and without writing the body artifact.
C18_AbsentArtifactTolerated ==
    /\ (flow = "report" /\ pc \in Final) =>
          LET Absent(k) == files[ReportInputs[k]] = Missing IN
          /\ (\A k \in 1..Len(ReportInputs) : Absent(k)) =>
                /\ pc = "done"
                /\ files["report.html"].t = "html"
          /\ out # Raise =>
                /\ Absent(1) => out.v.products = EmptyList
                /\ Absent(2) => out.v.suggestions = EmptyList
                /\ Absent(3) => out.v.footer_data = EmptyObj
                /\ Absent(4) => out.v.categories = EmptyList
                /\ Absent(5) => out.v.flash_sales = EmptyList
                /\ Absent(6) => out.v.daily_discover = EmptyList
    /\ (flow = "replay" /\ files["shopee_prep.json"] = Missing) =>
          /\ pc \in {"start", "done"}
          /\ gets = 0
          /\ files["response_shopee.json"] = Prev

\* A report written from the categories alone, the flash sale file (and
\* others) absent.
C18_Witness ==
    /\ flow = "report" /\ pc = "done"
    /\ files["response_flash_sale.json"] = Missing
    /\ files["response_shopee.json"] = Missing
    /\ files["response_category.json"] = DataOf("category_list", JObj(CategoryBase))
    /\ out.v.flash_sales = EmptyList /\ out.v.products = EmptyList
    /\ Len(out.v.categories.v) = 1
    /\ files["report.html"].t = "html"

\* C19: a harvesting run that ends with no url captured (navigation timeout,
\* login redirect, scroll budget exhausted) has closed the context, and has
\* written neither the TokenRecord artifact nor the raw body artifact.
C19_NoCaptureLeavesArtifacts ==
    (flow = "harvest" /\ harvested_data.url = None) =>
        /\ files["shopee_prep.json"] = Prev
        /\ files["response_shopee.json"] = Prev
        /\ pc = "done" => ctx = "closed"

\* A run redirected to the login page that used its 15 scrolls, saw a response
\* that did not match, took the screenshot and ended.
C19_Witness ==
    /\ flow = "harvest" /\ pc = "done" /\ harvested_data.url = None
    /\ login_redirect /\ Len(scrolls) = MaxScrolls /\ jar >= 1
    /\ files["debug_persistent.png"] # Prev
    /\ ctx = "closed" /\ files["shopee_prep.json"] = Prev

\* C20: in the multi-endpoint fetch no in-page fetch is started before the
\* checkpoint: the prompt is reached only from the navigation, the first
\* fetch starts only in the step in which input() returns, and until then no
\* endpoint is attempted and no result is stored.
C20_CheckpointBeforeFetch ==
    /\ [](flow = "fetch" /\ pc \in {"start", "goto", "checkpoint"} =>
             attempted = <<>> /\ results = <<>>)
    /\ [][flow = "fetch" =>
             /\ (pc # "checkpoint" /\ pc' = "checkpoint") => pc = "goto"
             /\ (attempted = <<>> /\ attempted' # <<>>) =>
                    /\ pc = "checkpoint" /\ pc' = "evaluate"
                    /\ attempted' = <<Endpoints[1]>>]_vars

\* The state right after the confirmation: the first fetch is in flight.
C20_Witness ==
    /\ flow = "fetch" /\ pc = "evaluate" /\ ctx = "open"
    /\ attempted = <<Endpoints[1]>> /\ results = <<>>

C22_TokenRecordAfterClose ==
    /\ [](flow = "harvest" /\ files["shopee_prep.json"] # Prev =>
             ctx = "closed" /\ pc = "done")
    /\ [][flow = "harvest" =>
             LET hd == harvested_data
                 old == files["shopee_prep.json"]
                 new == files'["shopee_prep.json"] IN
             /\ (pc = "exit_with" /\ pc' = "done") =>
                    (hd.url # None <=> new # Prev)
             /\ new # old =>
                    /\ ctx = "closed" /\ pc = "exit_with" /\ hd.url # None
                    /\ new.url = hd.url /\ new.cookies = hd.cookies
                    /\ DOMAIN new.headers =
                           DOMAIN hd.headers \cup {"x-requested-with", "accept"}
                    /\ new.headers["x-requested-with"] = <<"XMLHttpRequest", 0>>
                    /\ new.headers["accept"] = <<"application/json", 0>>
                    /\ \A h \in DOMAIN hd.headers \ {"x-requested-with", "accept"} :
                           new.headers[h] = hd.headers[h]]_vars

\* A saved record: the captured request carried its own accept header, which
\* the saved record does not keep, and a user-agent, which it keeps.
C22_Witness ==
    /\ flow = "harvest" /\ pc = "done" /\ ctx = "closed"
    /\ files["shopee_prep.json"] # Prev
    /\ "accept" \in DOMAIN harvested_data.headers
    /\ harvested_data.headers["accept"][1] = "*/*"
    /\ files["shopee_prep.json"].headers["accept"][1] = "application/json"
    /\ files["shopee_prep.json"].headers["user-agent"] =
          harvested_data.headers["user-agent"]
    /\ files["shopee_prep.json"].cookies = harvested_data.cookies
    /\ harvested_data.cookies # EmptyDict

\* C23: the url, headers and cookies of the persisted TokenRecord come from
\* the handling of one response: the handler that last wrote url and headers
\* has taken its cookie snapshot when the record is saved, and once it has,
\* no other handler writes the cookies.
C23_RecordFromOneResponse ==
    /\ [](flow = "harvest" /\ files["shopee_prep.json"] # Prev =>
             resp[files["shopee_prep.json"].url.id].st \in {"json", "done"})
    /\ [][flow = "harvest" =>
             \A r \in Responses :
                 (resp[r].st = "cookies" /\ resp'[r].st = "json"
                    /\ harvested_data.url.id # r) =>
                     resp[harvested_data.url.id].st \notin {"json", "done"}]_vars

\* C24: the TokenRecord artifact is written only in runs in which the signal
\* was set before the context was closed: a saved record implies that some
\* handler took its cookie snapshot and set request_captured, and the context
\* is closed with a url captured only when the signal is already set.
C24_SavedOnlyAfterSignal ==
    /\ [](flow = "harvest" /\ files["shopee_prep.json"] # Prev =>
             /\ request_captured
             /\ \E r \in Responses : resp[r].st = "done")
    /\ [][(flow = "harvest" /\ ctx = "open" /\ ctx' = "closed"
              /\ harvested_data.url # None) => request_captured]_vars

\* C25: on every raw payload each extractor of main_2.py returns what the
\* extractor of the same name of main.py returns, record for record and
\* field for field, also for top products with neither knodeid nor key.
C25_DynamicEqualsFileBased ==
    pc = "done" =>
        /\ extractor = "main_2.extract_shopee_products" =>
               out = extract_shopee_products(payload)
        /\ extractor = "main_2.extract_categories" =>
               out = extract_categories(payload)
        /\ extractor = "main_2.extract_flash_sales" =>
               out = extract_flash_sales(payload)
        /\ extractor = "main_2.extract_daily_discover" =>
               out = extract_daily_discover(payload)
        /\ extractor = "main_2.extract_suggestions" =>
               out = extract_suggestions(payload)

=============================================================================
